---- MODULE Spec2Model ----
(***************************************************************************)
(* Model of the pause/resume orchestrator of aws_hit_breaks:               *)
(*   services/orchestrator.py  OperationOrchestrator                       *)
(*   services/operations.py    PauseResumeOperations                       *)
(*   services/{ec2,rds,ecs,autoscaling}.py  the four service managers      *)
(*   cli/keyboard.py           the cancellation flag                       *)
(* One behaviour is one Pause (direct or through comprehensive_pause)      *)
(* followed by one Resume of the snapshot that Pause returned.             *)
(***************************************************************************)
EXTENDS Integers, Sequences, FiniteSets, TLC

\* ------------------------------------------------------------------ bounds
MaxRes == 1          \* resources in an account of Spec
MaxTasks == 3        \* resources in an account of SpecPool
MaxWorkers == 2      \* largest max_workers argument SpecPool tries
MaxRegions == 2      \* configured regions of SpecDiscover
MaxGiven == 2        \* resources of a snapshot handed to SpecResume
MaxPauses == 3       \* Pause calls of one run of SpecShelf
MaxListed == 3       \* resources of a list handed to SpecFilter
MaxResults == 3      \* results of a list handed to SpecSummary
MaxCalls == 2        \* get_service_manager calls of one thread in SpecRegistry
MaxCount == 7        \* desiredCount and runningCount of a service in SpecEcs
MaxQueued == 2       \* resources handed to the pools of SpecTerminates
MaxInService == 2    \* InService instances of the group in SpecAsg

\* orchestrator.py:141 and 247: max_workers: int = 5
DefaultMaxWorkers == 5

\* orchestrator.py:90: ThreadPoolExecutor(max_workers=10)
DiscoverWorkers == 10

\* autoscaling.py:236: max_wait_time: int = 600
max_wait_time == 600

\* autoscaling.py:263 and 267: time.sleep(30)
PollSleep == 30

\* ------------------------------------------------------- resource model
\* models.py Resource: tags and cost_per_hour play no part in pause/resume;
\* metadata.desired is desired_count (ecs) or desired_capacity (autoscaling)
Res(kind, id, st, desired, rtype, cluster) ==
    [service_type |-> kind, resource_id |-> id, region |-> "us-east-1",
     current_state |-> st,
     metadata |-> [desired |-> desired, resource_type |-> rtype, cluster_arn |-> cluster]]

\* The live objects of the account as enumerate reports them.  "db-1" names
\* both a DB instance and a DB cluster (rds.py reports both under
\* service_type 'rds'), "web" names a service in two clusters (ecs.py uses
\* serviceName as resource_id).
Catalogue ==
    << Res("ec2", "i-1", "running", 0, "", ""),
       Res("ec2", "i-2", "stopped", 0, "", ""),
       Res("rds", "db-1", "available", 0, "db_instance", ""),
       Res("rds", "db-1", "stopped", 0, "db_cluster", ""),
       Res("rds", "db-2", "available", 0, "db_cluster", ""),
       Res("ecs", "web", "running", 2, "", "cluster-a"),
       Res("ecs", "web", "scaling_up", 1, "", "cluster-b"),
       Res("ecs", "api", "stopped", 0, "", "cluster-a"),
       Res("autoscaling", "asg-1", "running", 2, "", ""),
       Res("autoscaling", "asg-2", "stopped", 0, "", ""),
       Res("autoscaling", "asg-3", "paused", 0, "", ""),
       Res("autoscaling", "asg-4", "suspended", 1, "", ""),
       Res("lambda", "fn-1", "active", 0, "", "") >>

\* models.py:18: r with cost_per_hour c, where << >> is None and << c >> is
\* the number c
Priced(r, c) ==
    [service_type |-> r.service_type, resource_id |-> r.resource_id,
     region |-> r.region, current_state |-> r.current_state,
     metadata |-> r.metadata, cost_per_hour |-> c]

\* The objects of the accounts of SpecPool: two services that share a name,
\* a resource of a kind the registry does not know, an instance, a database.
PoolCatalogue ==
    << Priced(Res("ecs", "web", "running", 2, "", "cluster-a"), << 2 >>),
       Priced(Res("ecs", "web", "scaling_up", 1, "", "cluster-b"), << >>),
       Priced(Res("lambda", "fn-1", "active", 0, "", ""), << 5 >>),
       Priced(Res("ec2", "i-1", "running", 0, "", ""), << 1 >>),
       Priced(Res("rds", "db-1", "available", 0, "db_instance", ""), << >>) >>

\* the elements of seq at the positions in S, in increasing position order
RECURSIVE SubSeqOf(_, _, _)
SubSeqOf(seq, S, i) ==
    IF i > Len(seq) THEN << >>
    ELSE (IF i \in S THEN << seq[i] >> ELSE << >>) \o SubSeqOf(seq, S, i + 1)

Range(seq) == { seq[i] : i \in DOMAIN seq }

\* orchestrator.py:157 f"{service_type}:{region}:{resource_id}"
Key(r) == r.service_type \o ":" \o r.region \o ":" \o r.resource_id

\* the cloud object a driver call on r addresses: the API is chosen by the
\* kind (and, for rds, by metadata.resource_type), ecs also names the cluster
ObjOf(r) == << r.service_type, r.region, r.resource_id,
               r.metadata.resource_type, r.metadata.cluster_arn >>

\* orchestrator.py:37-42
service_managers == { "ec2", "rds", "ecs", "autoscaling" }

\* operations.py:234-252
_is_resource_pausable(r) ==
    IF r.service_type = "ec2" THEN r.current_state = "running"
    ELSE IF r.service_type = "rds" THEN r.current_state = "available"
    ELSE IF r.service_type = "ecs"
         THEN r.current_state \in { "running", "scaling_up", "scaling_down" }
    ELSE IF r.service_type = "autoscaling"
         THEN r.current_state \in { "running", "suspended" }
    ELSE FALSE

\* operations.py:215-232
RECURSIVE _filter_pausable_resources(_)
_filter_pausable_resources(rs) ==
    IF rs = << >> THEN << >>
    ELSE (IF _is_resource_pausable(Head(rs)) THEN << Head(rs) >> ELSE << >>)
         \o _filter_pausable_resources(Tail(rs))

\* ------------------------------------------------------------ the cloud
\* what the account holds for one object: its status, its desired
\* count/capacity, and whether its scaling processes are suspended
CloudOf(r) ==
    [state |-> r.current_state, desired |-> r.metadata.desired,
     suspended |-> r.current_state \in { "paused", "suspended" }]

\* What one driver call meets: every cloud call succeeds ("ok"), the first
\* mutating call raises ("api_err"), a describe call or convergence waiter
\* raises ("wait_err"), or the driver itself raises as base.py:62-63 allows
\* ("raise").
Outcomes == { "ok", "api_err", "wait_err", "raise" }

\* the outcomes the pooled runs of SpecPool draw from
PoolOutcomes == { "ok", "api_err", "raise" }

\* base.py:95-124
_create_operation_result(r, op, ok, msg) ==
    [success |-> ok, resource |-> r, operation |-> op, message |-> msg]

\* an exception leaving pause_resource/resume_resource, as the future holds it
Raised(r) == [success |-> FALSE, resource |-> r, operation |-> "raised",
              message |-> "ServiceError"]

Ret(res, c, calls) == [result |-> res, obj |-> c, calls |-> calls]

\* ec2.py:69-150
EC2Pause(r, c, oc) ==
    IF r.current_state # "running"
    THEN Ret(_create_operation_result(r, "pause", FALSE, "is not running"), c, << >>)
    ELSE IF oc = "api_err"
    THEN Ret(_create_operation_result(r, "pause", FALSE, "Failed to stop"), c,
             << << "stop_instances", 0 >> >>)
    ELSE Ret(_create_operation_result(r, "pause", TRUE, "Successfully stopped"),
             [c EXCEPT !.state = "stopped"], << << "stop_instances", 0 >> >>)

\* ec2.py:152-241
EC2Resume(r, c, oc) ==
    LET current_state == IF oc = "wait_err" THEN r.current_state ELSE c.state
    IN  IF current_state \notin { "stopped", "stopping" }
        THEN Ret(_create_operation_result(r, "resume", FALSE, "is not stopped"), c, << >>)
        ELSE IF oc = "api_err"
        THEN Ret(_create_operation_result(r, "resume", FALSE, "Failed to start"), c,
                 << << "start_instances", 0 >> >>)
        ELSE Ret(_create_operation_result(r, "resume", TRUE, "Successfully started"),
                 [c EXCEPT !.state = "running"], << << "start_instances", 0 >> >>)

\* rds.py:192-224 and rds.py:260-292 (the two differ in the call they issue)
_pause_db(r, c, oc, call) ==
    IF r.current_state \notin { "available" }
    THEN Ret(_create_operation_result(r, "pause", FALSE, "cannot be stopped"), c, << >>)
    ELSE IF oc = "api_err"
    THEN Ret(Raised(r), c, << << call, 0 >> >>)
    ELSE IF oc = "wait_err"
    THEN Ret(Raised(r), [c EXCEPT !.state = "stopped"], << << call, 0 >> >>)
    ELSE Ret(_create_operation_result(r, "pause", TRUE, "Successfully stopped"),
             [c EXCEPT !.state = "stopped"], << << call, 0 >> >>)

\* rds.py:226-258 and rds.py:294-326
_resume_db(r, c, oc, call) ==
    IF r.current_state \notin { "stopped" }
    THEN Ret(_create_operation_result(r, "resume", FALSE, "cannot be started"), c, << >>)
    ELSE IF oc = "api_err"
    THEN Ret(Raised(r), c, << << call, 0 >> >>)
    ELSE IF oc = "wait_err"
    THEN Ret(Raised(r), [c EXCEPT !.state = "available"], << << call, 0 >> >>)
    ELSE Ret(_create_operation_result(r, "resume", TRUE, "Successfully started"),
             [c EXCEPT !.state = "available"], << << call, 0 >> >>)

\* the except clause that closes every driver method (rds.py:142-151)
Caught(ret, r, op, msg) ==
    IF ret.result.operation = "raised"
    THEN [ret EXCEPT !.result = _create_operation_result(r, op, FALSE, msg)]
    ELSE ret

\* rds.py:114-151
RDSPause(r, c, oc) ==
    LET resource_type == r.metadata.resource_type
    IN  IF resource_type = "db_instance"
        THEN Caught(_pause_db(r, c, oc, "stop_db_instance"), r, "pause", "Failed to stop")
        ELSE IF resource_type = "db_cluster"
        THEN Caught(_pause_db(r, c, oc, "stop_db_cluster"), r, "pause", "Failed to stop")
        ELSE Ret(_create_operation_result(r, "pause", FALSE, "Unknown RDS resource type"),
                 c, << >>)

\* rds.py:153-190
RDSResume(r, c, oc) ==
    LET resource_type == r.metadata.resource_type
    IN  IF resource_type = "db_instance"
        THEN Caught(_resume_db(r, c, oc, "start_db_instance"), r, "resume", "Failed to start")
        ELSE IF resource_type = "db_cluster"
        THEN Caught(_resume_db(r, c, oc, "start_db_cluster"), r, "resume", "Failed to start")
        ELSE Ret(_create_operation_result(r, "resume", FALSE, "Unknown RDS resource type"),
                 c, << >>)

\* the state ecs.py:80-91 derives once the service is stable at desired d
EcsStable(d) == IF d = 0 THEN "stopped" ELSE "running"

\* ecs.py:121-176
ECSPause(r, c, oc) ==
    IF r.current_state = "stopped"
    THEN Ret(_create_operation_result(r, "pause", FALSE, "is already stopped"), c, << >>)
    ELSE IF oc = "api_err"
    THEN Ret(_create_operation_result(r, "pause", FALSE, "Failed to pause"), c,
             << << "update_service", 0 >> >>)
    ELSE IF oc = "wait_err"
    THEN Ret(_create_operation_result(r, "pause", FALSE, "Failed to pause"),
             [c EXCEPT !.desired = 0, !.state = EcsStable(0)],
             << << "update_service", 0 >> >>)
    ELSE Ret(_create_operation_result(r, "pause", TRUE, "Successfully scaled"),
             [c EXCEPT !.desired = 0, !.state = EcsStable(0)],
             << << "update_service", 0 >> >>)

\* ecs.py:178-236
ECSResume(r, c, oc) ==
    LET original_desired_count == r.metadata.desired
    IN  IF r.current_state = "running" /\ r.metadata.desired > 0
        THEN Ret(_create_operation_result(r, "resume", FALSE, "is already running"), c, << >>)
        ELSE IF oc = "api_err"
        THEN Ret(_create_operation_result(r, "resume", FALSE, "Failed to resume"), c,
                 << << "update_service", original_desired_count >> >>)
        ELSE IF oc = "wait_err"
        THEN Ret(_create_operation_result(r, "resume", FALSE, "Failed to resume"),
                 [c EXCEPT !.desired = original_desired_count,
                           !.state = EcsStable(original_desired_count)],
                 << << "update_service", original_desired_count >> >>)
        ELSE Ret(_create_operation_result(r, "resume", TRUE, "Successfully scaled"),
                 [c EXCEPT !.desired = original_desired_count,
                           !.state = EcsStable(original_desired_count)],
                 << << "update_service", original_desired_count >> >>)

\* the state autoscaling.py:47-60 derives
AsgState(suspended, d) ==
    IF suspended /\ d = 0 THEN "paused"
    ELSE IF suspended THEN "suspended"
    ELSE IF d = 0 THEN "stopped"
    ELSE "running"

\* autoscaling.py:97-163
ASGPause(r, c, oc) ==
    IF r.current_state = "paused"
    THEN Ret(_create_operation_result(r, "pause", FALSE, "is already paused"), c, << >>)
    ELSE IF oc = "api_err"
    THEN Ret(_create_operation_result(r, "pause", FALSE, "Failed to pause"), c,
             << << "suspend_processes", 0 >> >>)
    ELSE Ret(_create_operation_result(r, "pause", oc # "wait_err",
                 IF oc = "wait_err" THEN "Failed to pause" ELSE "Successfully paused"),
             [c EXCEPT !.suspended = TRUE, !.desired = 0, !.state = AsgState(TRUE, 0)],
             << << "suspend_processes", 0 >>, << "set_desired_capacity", 0 >> >>)

\* autoscaling.py:165-234
ASGResume(r, c, oc) ==
    LET original_desired_capacity == r.metadata.desired
    IN  IF r.current_state = "running"
        THEN Ret(_create_operation_result(r, "resume", FALSE, "is already running"), c, << >>)
        ELSE IF oc = "api_err"
        THEN Ret(_create_operation_result(r, "resume", FALSE, "Failed to resume"), c,
                 << << "resume_processes", 0 >> >>)
        ELSE Ret(_create_operation_result(r, "resume", oc # "wait_err",
                     IF oc = "wait_err" THEN "Failed to resume" ELSE "Successfully resumed"),
                 [c EXCEPT !.suspended = FALSE, !.desired = original_desired_capacity,
                           !.state = AsgState(FALSE, original_desired_capacity)],
                 << << "resume_processes", 0 >>,
                    << "set_desired_capacity", original_desired_capacity >> >>)

\* manager.pause_resource of the manager get_service_manager returned
\* (orchestrator.py:176-177); "raise" is the exception the interface allows
pause_resource(r, c, oc) ==
    IF oc = "raise" THEN Ret(Raised(r), c, << >>)
    ELSE IF r.service_type = "ec2" THEN EC2Pause(r, c, oc)
    ELSE IF r.service_type = "rds" THEN RDSPause(r, c, oc)
    ELSE IF r.service_type = "ecs" THEN ECSPause(r, c, oc)
    ELSE ASGPause(r, c, oc)

\* manager.resume_resource (orchestrator.py:271-272)
resume_resource(r, c, oc) ==
    IF oc = "raise" THEN Ret(Raised(r), c, << >>)
    ELSE IF r.service_type = "ec2" THEN EC2Resume(r, c, oc)
    ELSE IF r.service_type = "rds" THEN RDSResume(r, c, oc)
    ELSE IF r.service_type = "ecs" THEN ECSResume(r, c, oc)
    ELSE ASGResume(r, c, oc)

\* ---------------------------------------------------------------- state
VARIABLES
    discovered,         \* the resources enumerate returned (the input)
    via,                \* how the operation was entered: "direct", "comprehensive", "dry_run"
    resources,          \* the list pause_resources was called with
    max_workers,        \* the max_workers argument
    cloud,              \* the account: ObjOf(r) -> status, desired, suspended
    calls,              \* ObjOf(r) -> the mutating cloud calls issued for it
    _cancel_requested,  \* keyboard.py:25
    phase,              \* "idle", "pause", "between", "resume", "end"
    pc,                 \* where the calling thread is inside the phase
    fi,                 \* index of the freeze loop (orchestrator.py:156)
    si,                 \* index of the submit loop (orchestrator.py:169, 264)
    original_states,    \* orchestrator.py:155
    task,               \* the futures of the executor, by position
    yielded,            \* the futures as_completed has handed out
    operation_results,  \* orchestrator.py:162, 257
    snapshot,           \* the AccountSnapshot Pause returned
    further,            \* driver calls begun in this phase while the flag was set
    escaped             \* an exception left pause_resources/resume_resources

\* ------------------------------------------------- discovery: state
VARIABLES
    regions,            \* orchestrator.py:34 self.regions
    service_types,      \* the kinds discover_all_resources was asked for
    world,              \* "empty" or "populated": what the account holds
    dphase,             \* "off", "idle", "submit", "collect", "exit", "returned"
    dsi,                \* position of the scheduling loop (orchestrator.py:94-95)
    dtask,              \* the futures of the discovery executor, by pair
    dyielded,           \* the futures as_completed has handed out
    all_resources,      \* orchestrator.py:86
    discovery_errors,   \* orchestrator.py:87 (how many)
    dreturn             \* what discover_all_resources gave its caller

dvars == << regions, service_types, world, dphase, dsi, dtask, dyielded,
            all_resources, discovery_errors, dreturn >>

\* --------------------------------------- comprehensive_resume: state
VARIABLES
    given,              \* the snapshot as it was when comprehensive_resume was called
    resume_error        \* "none", or the exception comprehensive_resume raised

rvars == << given, resume_error >>

\* ------------------------------------------------ snapshot store: state
VARIABLES
    fs,                 \* the snapshot directory: file name -> inode
    inode,              \* inode -> file content, a sequence of written chunks
    saver,              \* the save_snapshot calls, by caller
    loader,             \* the load_snapshot call
    listing,            \* whether list_snapshots ran, and the files it returned
    deleted             \* what delete_snapshot returned, or "none"

svars == << fs, inode, saver, loader, listing, deleted >>

\* ------------------------------------- a caller of the operations: state
VARIABLES
    now,                \* the clock datetime.now() reads: second and microsecond
    made,               \* the snapshots the Pause calls of this run returned
    answer              \* the last call of a query operation and what it returned

hvars == << now, made, answer >>

\* ------------------------------------------- the driver registry: state
VARIABLES
    _manager_cache,     \* orchestrator.py:45: (kind, region) -> driver
    built,              \* the drivers constructed so far, each with its key
    gcall               \* per calling thread: its get_service_manager call

gvars == << _manager_cache, built, gcall >>

\* ----------------------------------- one instance-group driver call: state
VARIABLES
    asg,                \* the group in the cloud: InService instances, desired
                        \* capacity, suspended processes
    adrv                \* the pause_resource call: position, calls made, clock

avars == << asg, adrv >>

vars == << dvars, gvars, avars, rvars, svars, hvars, discovered, via, resources, max_workers, cloud, calls,
           _cancel_requested, phase, pc, fi, si,
           original_states, task, yielded, operation_results, snapshot,
           further, escaped >>

NoRes == Res("", "", "", 0, "", "")
NoResult == _create_operation_result(NoRes, "", FALSE, "")
NoTask == [st |-> "none", arg |-> NoRes, out |-> NoResult, runs |-> 0]
NoSnapshot == [snapshot_id |-> "none", resources |-> << >>,
               original_states |-> << >>, operation_results |-> << >>,
               total_estimated_savings |-> 0]

Objs(rs) == { ObjOf(rs[i]) : i \in DOMAIN rs }

InitWith(d, w) ==
    /\ discovered = d
    /\ via = "none"
    /\ resources = << >>
    /\ max_workers = w
    /\ cloud = [o \in Objs(d) |-> CloudOf(CHOOSE r \in Range(d) : ObjOf(r) = o)]
    /\ calls = [o \in Objs(d) |-> << >>]
    /\ _cancel_requested = FALSE
    /\ phase = "idle"
    /\ pc = "done"
    /\ fi = 1
    /\ si = 1
    /\ original_states = << >>
    /\ task = << >>
    /\ yielded = {}
    /\ operation_results = << >>
    /\ snapshot = NoSnapshot
    /\ further = 0
    /\ escaped = FALSE

\* comprehensive_resume is not part of the run
ResumeOff ==
    /\ given = NoSnapshot
    /\ resume_error = "none"

NotListed == [done |-> FALSE, found |-> {}]

NoAnswer == [op |-> "none"]

\* the driver registry and the instance-group driver are not part of the run
RegistryOff ==
    /\ _manager_cache = << >>
    /\ built = << >>
    /\ gcall = << >>
    /\ asg = << >>
    /\ adrv = << >>

\* no caller state is part of the run
CallerOff ==
    /\ now = << >>
    /\ made = << >>
    /\ answer = NoAnswer

\* the snapshot store is not part of the run
StoreOff ==
    /\ fs = << >>
    /\ inode = << >>
    /\ saver = << >>
    /\ loader = << >>
    /\ listing = NotListed
    /\ deleted = "none"

\* no discovery is part of the run
DiscoverOff ==
    /\ regions = << >>
    /\ service_types = << >>
    /\ world = "empty"
    /\ dphase = "off"
    /\ dsi = 1
    /\ dtask = << >>
    /\ dyielded = {}
    /\ all_resources = << >>
    /\ discovery_errors = 0
    /\ dreturn = "none"

\* any account of at most MaxRes of the catalogue's objects, paused and
\* resumed with the default pool size
Init ==
    \E S \in SUBSET (1..Len(Catalogue)) :
        /\ Cardinality(S) <= MaxRes
        /\ InitWith(SubSeqOf(Catalogue, S, 1), DefaultMaxWorkers)
        /\ DiscoverOff
        /\ ResumeOff
        /\ StoreOff
        /\ CallerOff
        /\ RegistryOff

\* an account of the first n <= MaxTasks pool objects, and a small pool
InitPool ==
    \E n \in 0..MaxTasks, w \in 1..MaxWorkers :
        /\ InitWith(SubSeq(PoolCatalogue, 1, n), w)
        /\ DiscoverOff
        /\ ResumeOff
        /\ StoreOff
        /\ CallerOff
        /\ RegistryOff

\* ------------------------------------------------------------- helpers
\* a dictionary store that is lost
PutDropped(f, k, v) == f

\* orchestrator.py:157: original_states[key] = value
Put(f, k, v) == [x \in (DOMAIN f) \cup {k} |-> IF x = k THEN v ELSE f[x]]

\* orchestrator.py:157-160
FrozenState(r) == [current_state |-> r.current_state, metadata |-> r.metadata]

\* a freeze loop that stops after its first resource
FreezeNextEarly(i, n) == "submit"

\* orchestrator.py:156: the freeze loop goes on to the last resource
FreezeNext(i, n) == IF i = n THEN "submit" ELSE "freeze"

\* keyboard.py:116-122: whether poll_escape calls request_cancel; esc is
\* what "the listener is active and check_for_escape()" evaluates to
poll_escape(esc) == esc

\* a flag that follows the key: clear again at the next poll without ESC
latched_polled_only(flag, esc) == poll_escape(esc)

\* keyboard.py:116-122 and 142-144: poll_escape can only set the Event
\* (request_cancel); nothing in the orchestrator clears it
latched(flag, esc) == flag \/ poll_escape(esc)

\* a registry that knows no kind
get_service_manager_empty(service_type) == "ServiceError"

\* orchestrator.py:47-69
get_service_manager(service_type) ==
    IF service_type \in service_managers THEN "manager" ELSE "ServiceError"

\* orchestrator.py:179-189 and 274-284
FailedManagerResult(r, op) ==
    _create_operation_result(r, op, FALSE, "Failed to get service manager")

\* future.result() outside any try/except: the exception goes on
future_result_unguarded(out, r, op) == out

\* orchestrator.py:201-221 and 296-316: future.result() inside try/except
future_result(out, r, op) ==
    IF out.operation = "raised"
    THEN _create_operation_result(r, op, FALSE, "Unexpected error")
    ELSE out

\* savings of a day
RECURSIVE total_estimated_savings_daily(_)
total_estimated_savings_daily(rs) ==
    IF rs = << >> THEN 0
    ELSE (IF "cost_per_hour" \in DOMAIN Head(rs) /\ Head(rs).cost_per_hour # << >>
          THEN Head(rs).cost_per_hour[1] * 24 ELSE 0)
         + total_estimated_savings_daily(Tail(rs))

\* orchestrator.py:223-227: resource.cost_per_hour * 24 * 30 summed over the
\* resources that carry a cost.  models.py:18: cost_per_hour is an
\* Optional[float] that defaults to None: a record without the field, or
\* with the empty sequence, has None; << c >> is the cost c
RECURSIVE total_estimated_savings(_)
total_estimated_savings(rs) ==
    IF rs = << >> THEN 0
    ELSE (IF "cost_per_hour" \in DOMAIN Head(rs)
          THEN (IF Head(rs).cost_per_hour = << >> THEN 0
                ELSE Head(rs).cost_per_hour[1] * 24 * 30)
          ELSE 0)
         + total_estimated_savings(Tail(rs))

\* a result list that carries on the snapshot's operation history
ResultsContinued(snap) == snap.operation_results

\* orchestrator.py:257: operation_results = []
FreshResults(snap) == << >>

\* the list the fan-out walks: orchestrator.py:169 and orchestrator.py:264
WorkList == IF phase = "resume" THEN snapshot.resources ELSE resources

Running == { i \in DOMAIN task : task[i].st = "running" }
Pending == { i \in DOMAIN task : task[i].st = "pending" }
Submitted == { i \in DOMAIN task : task[i].st # "none" }
Min(S) == CHOOSE x \in S : \A y \in S : x <= y

\* a collect loop that goes on waiting after it saw the flag
collect_break_waits == "collect"

\* orchestrator.py:119-120, 197-198, 292-293: break leaves the collect loop
\* for the end of the with block
collect_break == "exit"

\* an executor that starts a thread for every queued call
worker_free_always(running, size) == TRUE

\* orchestrator.py:90, 165, 262: ThreadPoolExecutor(max_workers=size) runs a
\* queued call only on one of its size threads
worker_free(running, size) == Cardinality(running) < size

\* ------------------------------------------------------------- actions
StartPause(rs) ==
    /\ resources' = rs
    /\ phase' = "pause"
    /\ pc' = IF rs = << >> THEN "collect" ELSE "freeze"
    /\ fi' = 1
    /\ si' = 1
    /\ original_states' = << >>
    /\ task' = [i \in DOMAIN rs |-> NoTask]
    /\ yielded' = {}
    /\ operation_results' = << >>
    /\ further' = 0
    /\ UNCHANGED << dvars, gvars, avars, rvars, svars, hvars, discovered, max_workers, cloud, calls, _cancel_requested,
                    snapshot, escaped >>

\* orchestrator.py:141-162: pause_resources called on the enumerated list
PauseResources ==
    /\ phase = "idle"
    /\ via' = "direct"
    /\ StartPause(discovered)

\* operations.py:63-92: comprehensive_pause keeps the pausable resources and
\* returns ([], None) when nothing is left
ComprehensivePause ==
    /\ phase = "idle"
    /\ via' = "comprehensive"
    /\ LET pausable_resources == _filter_pausable_resources(discovered)
       IN  IF discovered = << >> \/ pausable_resources = << >>
           THEN /\ phase' = "end"
                /\ UNCHANGED << dvars, gvars, avars, rvars, svars, hvars, discovered, resources, max_workers, cloud, calls,
                                _cancel_requested, pc, fi, si,
                                original_states, task, yielded, operation_results,
                                snapshot, further, escaped >>
           ELSE StartPause(pausable_resources)

\* orchestrator.py:154-160: one iteration of the freeze loop
Freeze ==
    /\ phase = "pause" /\ pc = "freeze"
    /\ original_states' = Put(original_states, Key(resources[fi]),
                              FrozenState(resources[fi]))
    /\ fi' = fi + 1
    /\ pc' = FreezeNext(fi, Len(resources))
    /\ UNCHANGED << dvars, gvars, avars, rvars, svars, hvars, discovered, via, resources, max_workers, cloud, calls,
                    _cancel_requested, phase, si, task, yielded,
                    operation_results, snapshot, further, escaped >>

\* orchestrator.py:169-189 and 264-284: one iteration of the submit loop
Submit(esc) ==
    /\ phase \in { "pause", "resume" } /\ pc = "submit"
    /\ LET flag == latched(_cancel_requested, esc)
           r == WorkList[si]
       IN  /\ _cancel_requested' = flag
           /\ IF flag
              THEN /\ pc' = "collect"
                   /\ UNCHANGED << si, task, operation_results >>
              ELSE /\ si' = si + 1
                   /\ pc' = IF si = Len(WorkList) THEN "collect" ELSE "submit"
                   /\ IF get_service_manager(r.service_type) = "manager"
                      THEN /\ task' = [task EXCEPT ![si] =
                                          [st |-> "pending", arg |-> r,
                                           out |-> NoResult, runs |-> 0]]
                           /\ UNCHANGED operation_results
                      ELSE /\ operation_results' =
                                  Append(operation_results, FailedManagerResult(r, phase))
                           /\ UNCHANGED task
    /\ UNCHANGED << dvars, gvars, avars, rvars, svars, hvars, discovered, via, resources, max_workers, cloud, calls,
                    phase, fi, original_states, yielded,
                    snapshot, further, escaped >>

\* a worker of ThreadPoolExecutor(max_workers) (orchestrator.py:165, 260)
\* takes the oldest queued work item and begins the driver call
WorkerStart ==
    /\ phase \in { "pause", "resume" }
    /\ Pending # {}
    /\ worker_free(Running, max_workers)
    /\ task' = [task EXCEPT ![Min(Pending)].st = "running",
                            ![Min(Pending)].runs = @ + 1]
    /\ further' = IF _cancel_requested THEN further + 1 ELSE further
    /\ UNCHANGED << dvars, gvars, avars, rvars, svars, hvars, discovered, via, resources, max_workers, cloud, calls,
                    _cancel_requested, phase, pc, fi, si,
                    original_states, yielded, operation_results, snapshot, escaped >>

\* the driver call of task i runs to its end (orchestrator.py:177, 272)
WorkerFinish(i, oc) ==
    /\ phase \in { "pause", "resume" }
    /\ i \in Running
    /\ LET r == task[i].arg
           ret == IF phase = "pause" THEN pause_resource(r, cloud[ObjOf(r)], oc)
                  ELSE resume_resource(r, cloud[ObjOf(r)], oc)
       IN  /\ task' = [task EXCEPT ![i].st = "finished", ![i].out = ret.result]
           /\ cloud' = [cloud EXCEPT ![ObjOf(r)] = ret.obj]
           /\ calls' = [calls EXCEPT ![ObjOf(r)] = @ \o ret.calls]
    /\ UNCHANGED << dvars, gvars, avars, rvars, svars, hvars, discovered, via, resources, max_workers, _cancel_requested,
                    phase, pc, fi, si, original_states, yielded,
                    operation_results, snapshot, further, escaped >>

\* orchestrator.py:192-221 and 287-316: as_completed hands out finished
\* future i; one iteration of the collect loop
Collect(i, esc) ==
    /\ phase \in { "pause", "resume" } /\ pc = "collect"
    /\ i \in DOMAIN task /\ task[i].st = "finished" /\ i \notin yielded
    /\ LET flag == latched(_cancel_requested, esc)
           res == future_result(task[i].out, WorkList[i], phase)
       IN  /\ _cancel_requested' = flag
           /\ IF flag
              THEN \* executor.shutdown(wait=False, cancel_futures=True); break
                   /\ task' = [j \in DOMAIN task |->
                                  IF task[j].st = "pending"
                                  THEN [task[j] EXCEPT !.st = "cancelled"]
                                  ELSE task[j]]
                   /\ pc' = collect_break
                   /\ UNCHANGED << yielded, operation_results, escaped >>
              ELSE /\ yielded' = yielded \cup {i}
                   /\ IF res.operation = "raised"
                      THEN /\ escaped' = TRUE
                           /\ pc' = "exit"
                           /\ UNCHANGED operation_results
                      ELSE /\ operation_results' = Append(operation_results, res)
                           /\ UNCHANGED << pc, escaped >>
                   /\ UNCHANGED task
    /\ UNCHANGED << dvars, gvars, avars, rvars, svars, hvars, discovered, via, resources, max_workers, cloud, calls,
                    phase, fi, si, original_states, snapshot,
                    further >>

\* a collect loop that may stop before as_completed is exhausted
PoolClosedEarly ==
    /\ pc \in { "exit", "collect" }
    /\ { i \in DOMAIN task : task[i].st = "running" } = {}

\* the with block is left (ThreadPoolExecutor.__exit__ waits for the running
\* work items) once as_completed is exhausted or the loop broke
PoolClosed ==
    /\ \/ pc = "exit"
       \/ pc = "collect" /\ Submitted \subseteq yielded
    /\ Running = {}

\* the locals of a call are gone once it returned
DropLocals ==
    /\ pc' = "done"
    /\ fi' = 1
    /\ si' = 1
    /\ task' = << >>
    /\ yielded' = {}
    /\ operation_results' = << >>
    /\ original_states' = << >>
    /\ further' = 0

\* orchestrator.py:223-245
PauseReturn ==
    /\ phase = "pause" /\ PoolClosed
    /\ phase' = IF escaped THEN "end" ELSE "between"
    /\ snapshot' = IF escaped THEN NoSnapshot
                   ELSE [snapshot_id |-> "pause", resources |-> resources,
                         original_states |-> original_states,
                         operation_results |-> operation_results,
                         total_estimated_savings |->
                             total_estimated_savings(resources)]
    /\ DropLocals
    /\ UNCHANGED << dvars, gvars, avars, rvars, svars, hvars, discovered, via, resources, max_workers, cloud, calls,
                    _cancel_requested, escaped >>

\* keyboard.py:132-134, as the caller does between two operations
\* (interactive.py:62)
ResetCancel ==
    /\ phase = "between" /\ _cancel_requested
    /\ _cancel_requested' = FALSE
    /\ UNCHANGED << dvars, gvars, avars, rvars, svars, hvars, discovered, via, resources, max_workers, cloud, calls,
                    phase, pc, fi, si, original_states, task,
                    yielded, operation_results, snapshot, further, escaped >>

\* orchestrator.py:257-262: resume_resources begins
StartResume ==
    /\ phase' = "resume"
    /\ pc' = IF snapshot.resources = << >> THEN "collect" ELSE "submit"
    /\ si' = 1
    /\ task' = [i \in DOMAIN snapshot.resources |-> NoTask]
    /\ yielded' = {}
    /\ operation_results' = FreshResults(snapshot)
    /\ further' = 0
    /\ UNCHANGED << dvars, gvars, avars, svars, hvars, discovered, via, resources, max_workers, cloud, calls,
                    _cancel_requested, fi, original_states,
                    snapshot, escaped >>

\* orchestrator.py:247-262: resume_resources called on the snapshot
ResumeResources ==
    /\ phase = "between"
    /\ StartResume
    /\ UNCHANGED rvars

\* orchestrator.py:318-324
ResumeReturn ==
    /\ phase = "resume" /\ PoolClosed
    /\ phase' = "end"
    /\ pc' = "done"
    /\ UNCHANGED << dvars, gvars, avars, rvars, svars, hvars, discovered, via, resources, max_workers, cloud, calls,
                    _cancel_requested, fi, si, original_states,
                    task, yielded, operation_results, snapshot, further, escaped >>

Next ==
    \/ PauseResources
    \/ ComprehensivePause
    \/ Freeze
    \/ \E esc \in BOOLEAN : Submit(esc)
    \/ WorkerStart
    \/ \E i \in DOMAIN task, oc \in Outcomes : WorkerFinish(i, oc)
    \/ \E i \in DOMAIN task, esc \in BOOLEAN : Collect(i, esc)
    \/ PauseReturn
    \/ ResetCancel
    \/ ResumeResources
    \/ ResumeReturn

Spec == Init /\ [][Next]_vars

\* pause_resources and resume_resources called directly
NextPool ==
    \/ PauseResources
    \/ Freeze
    \/ \E esc \in BOOLEAN : Submit(esc)
    \/ WorkerStart
    \/ \E i \in DOMAIN task, oc \in PoolOutcomes : WorkerFinish(i, oc)
    \/ \E i \in DOMAIN task, esc \in BOOLEAN : Collect(i, esc)
    \/ PauseReturn
    \/ ResetCancel
    \/ ResumeResources
    \/ ResumeReturn

SpecPool == InitPool /\ [][NextPool]_vars

\* ------------------------------------------------ comprehensive_resume
\* a check that lets every snapshot pass
_validate_snapshot_lenient(snap) == "ok"

\* operations.py:304-325
_validate_snapshot(snap) ==
    IF snap.resources = << >> THEN "ServiceError"
    ELSE IF DOMAIN snap.original_states = {} THEN "ServiceError"
    ELSE IF \E i \in DOMAIN snap.resources :
                Key(snap.resources[i]) \notin DOMAIN snap.original_states
    THEN "ServiceError"
    ELSE "ok"

\* operations.py:279-302
_generate_resume_dry_run_results(rs) ==
    [i \in DOMAIN rs |->
        _create_operation_result(rs[i], "resume", TRUE, "[DRY RUN] Would resume")]

\* the resources of the snapshots handed to comprehensive_resume: an EC2
\* instance, a DB instance and a resource of a kind without driver
GivenCatalogue == << PoolCatalogue[4], PoolCatalogue[5], PoolCatalogue[3] >>

\* the snapshots handed to comprehensive_resume: as pause_resources built
\* them (orchestrator.py:229-237), or as load_snapshot returned them from a
\* file in which entries of original_states are missing
\* (snapshot_manager.py:235)
GivenSnapshot(n, K, s) ==
    [snapshot_id |-> "pause",
     resources |-> SubSeq(GivenCatalogue, 1, n),
     original_states |->
         [k \in K |-> FrozenState(CHOOSE r \in Range(SubSeq(GivenCatalogue, 1, n)) :
                                      Key(r) = k)],
     operation_results |->
         [i \in 1..n |-> _create_operation_result(GivenCatalogue[i], "pause",
                                                  TRUE, "paused")],
     total_estimated_savings |-> s]

GivenSnapshots ==
    UNION { { GivenSnapshot(n, K, s) :
                K \in SUBSET { Key(GivenCatalogue[i]) : i \in 1..n },
                s \in { 0, 72 } } :
            n \in 0..MaxGiven }

\* a caller holds a snapshot and the account whose resources it names
InitResume ==
    /\ snapshot \in GivenSnapshots
    /\ given = snapshot
    /\ resume_error = "none"
    /\ discovered = snapshot.resources
    /\ via = "none"
    /\ resources = << >>
    /\ max_workers = DefaultMaxWorkers
    /\ cloud = [o \in Objs(snapshot.resources) |->
                   CloudOf(CHOOSE r \in Range(snapshot.resources) : ObjOf(r) = o)]
    /\ calls = [o \in Objs(snapshot.resources) |-> << >>]
    /\ _cancel_requested = FALSE
    /\ phase = "between"
    /\ pc = "done"
    /\ fi = 1
    /\ si = 1
    /\ original_states = << >>
    /\ task = << >>
    /\ yielded = {}
    /\ operation_results = << >>
    /\ further = 0
    /\ escaped = FALSE
    /\ DiscoverOff
    /\ StoreOff
    /\ CallerOff
    /\ RegistryOff

\* operations.py:110-154
ComprehensiveResume(dry_run) ==
    /\ phase = "between"
    /\ given' = snapshot
    /\ via' = IF dry_run THEN "dry_run" ELSE "comprehensive"
    /\ IF _validate_snapshot(snapshot) # "ok"
       THEN /\ resume_error' = _validate_snapshot(snapshot)
            /\ phase' = "end"
            /\ UNCHANGED << dvars, gvars, avars, svars, hvars, discovered, resources, max_workers, cloud,
                            calls, _cancel_requested, pc, fi, si,
                            original_states, task, yielded, operation_results,
                            snapshot, further, escaped >>
       ELSE IF dry_run
       THEN /\ operation_results' =
                   _generate_resume_dry_run_results(snapshot.resources)
            /\ phase' = "end"
            /\ UNCHANGED << dvars, gvars, avars, svars, hvars, discovered, resources, max_workers, cloud,
                            calls, _cancel_requested, pc, fi, si,
                            original_states, task, yielded, snapshot, further,
                            escaped, resume_error >>
       ELSE /\ phase' = "resume"
            /\ pc' = IF snapshot.resources = << >> THEN "collect" ELSE "submit"
            /\ si' = 1
            /\ task' = [i \in DOMAIN snapshot.resources |-> NoTask]
            /\ yielded' = {}
            /\ operation_results' = FreshResults(snapshot)
            /\ further' = 0
            /\ UNCHANGED << dvars, gvars, avars, svars, hvars, discovered, resources, max_workers, cloud,
                            calls, _cancel_requested, fi, original_states,
                            snapshot, escaped, resume_error >>

NextResume ==
    \/ \E dry_run \in BOOLEAN : ComprehensiveResume(dry_run)
    \/ \E esc \in BOOLEAN : Submit(esc)
    \/ WorkerStart
    \/ \E i \in DOMAIN task, oc \in PoolOutcomes : WorkerFinish(i, oc)
    \/ \E i \in DOMAIN task, esc \in BOOLEAN : Collect(i, esc)
    \/ ResumeReturn

SpecResume == InitResume /\ [][NextResume]_vars

\* ------------------------------------------------------------ discovery
\* the state of pause_resources and resume_resources
pvars0 == << discovered, via, resources, max_workers, cloud, calls, phase, pc,
            fi, si, original_states, task, yielded, operation_results,
            snapshot, further, escaped >>

\* the state a discovery leaves alone
pvars == << rvars, svars, hvars, gvars, avars, pvars0 >>

AllRegions == << "us-east-1", "eu-west-1", "ap-south-1" >>

\* the service_types arguments tried; "s3" is a kind the registry lacks
KindRequests == { << "ec2" >>, << "ec2", "rds" >>, << "s3", "ec2" >> }

\* what manager.discover_resources of (region, kind) returns in a populated
\* account: every returned Resource carries the manager's region
Enumerated(region, kind) ==
    IF kind = "ec2" /\ region = "us-east-1"
    THEN << Res("ec2", "i-1", "running", 0, "", "") >>
    ELSE IF kind = "ec2" /\ region = "eu-west-1"
    THEN << [Res("ec2", "i-7", "stopped", 0, "", "") EXCEPT !.region = region],
            [Res("ec2", "i-8", "running", 0, "", "") EXCEPT !.region = region] >>
    ELSE IF kind = "rds" /\ region = "us-east-1"
    THEN << Res("rds", "db-1", "available", 0, "db_instance", "") >>
    ELSE << >>

\* orchestrator.py:94-95: the (region, kind) pairs in scheduling order
NPairs == Len(regions) * Len(service_types)
PairRegion(i) == regions[((i - 1) \div Len(service_types)) + 1]
PairKind(i) == service_types[((i - 1) % Len(service_types)) + 1]

\* what enumerate returns for pair i in this account
Holds(i) == IF world = "empty" THEN << >> ELSE Enumerated(PairRegion(i), PairKind(i))

DNoTask == [st |-> "none", runs |-> 0, failed |-> FALSE, out |-> << >>]

\* a check of the flag that never sees it
is_cancelled_never(flag) == FALSE

\* keyboard.py:137-139
is_cancelled(flag) == flag

\* a list that keeps only what was added last
extend_replaced(list, found) == found

\* orchestrator.py:125: all_resources.extend(resources)
extend(list, found) == list \o found

\* orchestrator.py:139: discover_all_resources returns the list it gathered,
\* whatever discovery_errors holds
DiscoverOutcome(errors, scheduled) == "list"

DRunning == { i \in DOMAIN dtask : dtask[i].st = "running" }
DPending == { i \in DOMAIN dtask : dtask[i].st = "pending" }
DSubmitted == { i \in DOMAIN dtask : dtask[i].st # "none" }

\* no pause or resume is part of the run
PauseOff ==
    /\ discovered = << >>
    /\ via = "none"
    /\ resources = << >>
    /\ max_workers = DefaultMaxWorkers
    /\ cloud = << >>
    /\ calls = << >>
    /\ phase = "end"
    /\ pc = "done"
    /\ fi = 1
    /\ si = 1
    /\ original_states = << >>
    /\ task = << >>
    /\ yielded = {}
    /\ operation_results = << >>
    /\ snapshot = NoSnapshot
    /\ further = 0
    /\ escaped = FALSE

\* one orchestrator with up to MaxRegions regions, asked for some kinds; the
\* flag is whatever the previous operation left (keyboard.py:25, 132-144)
InitDiscover ==
    /\ PauseOff
    /\ ResumeOff
    /\ StoreOff
    /\ CallerOff
    /\ RegistryOff
    /\ _cancel_requested \in BOOLEAN
    /\ \E n \in 1..MaxRegions : regions = SubSeq(AllRegions, 1, n)
    /\ service_types \in KindRequests
    /\ world \in { "empty", "populated" }
    /\ dphase = "idle"
    /\ dsi = 1
    /\ dtask = << >>
    /\ dyielded = {}
    /\ all_resources = << >>
    /\ discovery_errors = 0
    /\ dreturn = "none"

\* orchestrator.py:83-92
DiscoverAll ==
    /\ dphase = "idle"
    /\ dphase' = "submit"
    /\ dtask' = [i \in 1..NPairs |-> DNoTask]
    /\ UNCHANGED << regions, service_types, world, dsi, dyielded, all_resources,
                    discovery_errors, dreturn, pvars, _cancel_requested >>

\* orchestrator.py:94-110: one iteration of the scheduling loops
DSubmit(esc) ==
    /\ dphase = "submit"
    /\ _cancel_requested' = latched(_cancel_requested, esc)
    /\ IF is_cancelled(_cancel_requested')
       THEN /\ dphase' = "collect"
            /\ UNCHANGED << dsi, dtask, discovery_errors >>
       ELSE /\ dsi' = dsi + 1
            /\ dphase' = IF dsi = NPairs THEN "collect" ELSE "submit"
            /\ IF get_service_manager(PairKind(dsi)) = "manager"
               THEN /\ dtask' = [dtask EXCEPT ![dsi].st = "pending"]
                    /\ UNCHANGED discovery_errors
               ELSE /\ discovery_errors' = discovery_errors + 1
                    /\ UNCHANGED dtask
    /\ UNCHANGED << regions, service_types, world, dyielded, all_resources,
                    dreturn, pvars >>

\* a worker of the discovery executor begins the oldest queued enumerate
DWorkerStart ==
    /\ dphase \in { "submit", "collect", "exit" }
    /\ DPending # {}
    /\ worker_free(DRunning, DiscoverWorkers)
    /\ dtask' = [dtask EXCEPT ![Min(DPending)].st = "running",
                              ![Min(DPending)].runs = @ + 1]
    /\ UNCHANGED << regions, service_types, world, dphase, dsi, dyielded,
                    all_resources, discovery_errors, dreturn, pvars,
                    _cancel_requested >>

\* manager.discover_resources of pair i returns its list or raises
DWorkerFinish(i, oc) ==
    /\ i \in DRunning
    /\ dtask' = [dtask EXCEPT ![i].st = "finished",
                              ![i].failed = (oc = "raise"),
                              ![i].out = IF oc = "raise" THEN << >> ELSE Holds(i)]
    /\ UNCHANGED << regions, service_types, world, dphase, dsi, dyielded,
                    all_resources, discovery_errors, dreturn, pvars,
                    _cancel_requested >>

\* orchestrator.py:113-130: one iteration of the collect loop
DCollect(i, esc) ==
    /\ dphase = "collect"
    /\ i \in DOMAIN dtask /\ dtask[i].st = "finished" /\ i \notin dyielded
    /\ _cancel_requested' = latched(_cancel_requested, esc)
    /\ IF is_cancelled(_cancel_requested')
       THEN /\ dtask' = [j \in DOMAIN dtask |->
                            IF dtask[j].st = "pending"
                            THEN [dtask[j] EXCEPT !.st = "cancelled"]
                            ELSE dtask[j]]
            /\ dphase' = collect_break
            /\ UNCHANGED << dyielded, all_resources, discovery_errors >>
       ELSE /\ dyielded' = dyielded \cup {i}
            /\ IF dtask[i].failed
               THEN /\ discovery_errors' = discovery_errors + 1
                    /\ UNCHANGED all_resources
               ELSE /\ all_resources' = extend(all_resources, dtask[i].out)
                    /\ UNCHANGED discovery_errors
            /\ UNCHANGED << dtask, dphase >>
    /\ UNCHANGED << regions, service_types, world, dsi, dreturn, pvars >>

\* orchestrator.py:131-139: the with block is left and the list returned
DiscoverReturn ==
    /\ \/ dphase = "exit"
       \/ dphase = "collect" /\ DSubmitted \subseteq dyielded
    /\ DRunning = {}
    /\ dphase' = "returned"
    /\ dreturn' = DiscoverOutcome(discovery_errors, dsi - 1)
    /\ UNCHANGED << regions, service_types, world, dsi, dtask, dyielded,
                    all_resources, discovery_errors, pvars, _cancel_requested >>

NextDiscover ==
    \/ DiscoverAll
    \/ \E esc \in BOOLEAN : DSubmit(esc)
    \/ DWorkerStart
    \/ \E i \in DOMAIN dtask, oc \in { "ok", "raise" } : DWorkerFinish(i, oc)
    \/ \E i \in DOMAIN dtask, esc \in BOOLEAN : DCollect(i, esc)
    \/ DiscoverReturn

SpecDiscover == InitDiscover /\ [][NextDiscover]_vars

\* a discovery, or a Pause followed by a Resume
SpecCancel == (InitDiscover \/ InitPool) /\ [][NextDiscover \/ NextPool]_vars

\* -------------------------------------------------------- snapshot store
\* Python values whose type matters to json: a datetime and a str, each with
\* the pieces of its text
Dt(date, time) == [type |-> "datetime", text |-> << date, time >>]
Str(x) == [type |-> "str", text |-> << x >>]

\* datetime.isoformat(): date and time joined by "T"
isoformat(v) == [type |-> "str", text |-> << v.text[1], "T", v.text[2] >>]

\* str(datetime): date and time joined by a blank
python_str(v) == [type |-> "str", text |-> << v.text[1], " ", v.text[2] >>]

\* datetime.fromisoformat(): a date, one separator character, a time
fromisoformat(v) ==
    IF v.type = "str" /\ Len(v.text) = 3
    THEN [type |-> "datetime", text |-> << v.text[1], v.text[3] >>]
    ELSE [type |-> "ValueError", text |-> << >>]

\* snapshot_manager.py:54: json.dump(..., default=str) calls str() on the
\* values json cannot encode and writes the others as they are
json_default(v) == IF v.type = "datetime" THEN python_str(v) ELSE v

JsonMeta(m) == [k \in DOMAIN m |-> json_default(m[k])]

\* ec2.py:45-61: an instance as EC2ServiceManager.discover_resources reports
\* it; LaunchTime is a datetime
StoreEC2 ==
    [service_type |-> "ec2", resource_id |-> "i-1", region |-> "us-east-1",
     current_state |-> "running", tags |-> << >>,
     metadata |-> [instance_type |-> Str("t3.micro"),
                   launch_time |-> Dt("2024-01-15", "10:30:00")],
     cost_per_hour |-> << >>]

\* rds.py:50-68: a DB instance as RDSServiceManager.discover_resources
\* reports it
StoreRDS ==
    [service_type |-> "rds", resource_id |-> "db-1", region |-> "us-east-1",
     current_state |-> "available", tags |-> << >>,
     metadata |-> [engine |-> Str("mysql"),
                   resource_type |-> Str("db_instance")],
     cost_per_hour |-> << >>]

\* orchestrator.py:151-237: the snapshot pause_resources builds for rs, every
\* pause having succeeded
PausedSnapshot(rs) ==
    [snapshot_id |-> "pause-1",
     timestamp |-> Dt("2024-02-01", "08:00:00"),
     resources |-> rs,
     original_states |->
         [k \in { Key(rs[i]) : i \in DOMAIN rs } |->
             LET r == CHOOSE x \in Range(rs) : Key(x) = k
             IN  [current_state |-> r.current_state, metadata |-> r.metadata]],
     operation_results |->
         [i \in DOMAIN rs |->
             [success |-> TRUE, resource |-> rs[i], operation |-> "pause",
              message |-> "paused",
              timestamp |-> Dt("2024-02-01", "08:00:05"), duration |-> 5]],
     total_estimated_savings |-> total_estimated_savings(rs)]

\* the snapshots handed to save_snapshot
SaveInputs == << PausedSnapshot(<< StoreEC2 >>), PausedSnapshot(<< StoreRDS >>) >>

\* snapshot_manager.py:200-210
_serialize_resource(r) ==
    [service_type |-> r.service_type, resource_id |-> r.resource_id,
     region |-> r.region, current_state |-> r.current_state,
     tags |-> r.tags, metadata |-> r.metadata,
     cost_per_hour |-> r.cost_per_hour]

\* snapshot_manager.py:212-221
_serialize_operation_result(o) ==
    [success |-> o.success, resource |-> _serialize_resource(o.resource),
     operation |-> o.operation, message |-> o.message,
     timestamp |-> isoformat(o.timestamp), duration |-> o.duration]

\* snapshot_manager.py:188-198
_serialize_snapshot(snap) ==
    [snapshot_id |-> snap.snapshot_id,
     timestamp |-> isoformat(snap.timestamp),
     region |-> IF snap.resources # << >> THEN snap.resources[1].region ELSE "None",
     resources |-> [i \in DOMAIN snap.resources |->
                       _serialize_resource(snap.resources[i])],
     original_states |-> snap.original_states,
     operation_results |-> [i \in DOMAIN snap.operation_results |->
                               _serialize_operation_result(snap.operation_results[i])],
     total_estimated_savings |-> snap.total_estimated_savings]

\* snapshot_manager.py:54: what json.dump(snapshot_data, default=str) writes,
\* as json.load reads it back
json_dump(data) ==
    [data EXCEPT
       !.resources = [i \in DOMAIN @ |-> [@[i] EXCEPT !.metadata = JsonMeta(@)]],
       !.original_states =
           [k \in DOMAIN @ |-> [@[k] EXCEPT !.metadata = JsonMeta(@)]],
       !.operation_results =
           [i \in DOMAIN @ |-> [@[i] EXCEPT !.resource.metadata = JsonMeta(@)]]]

\* snapshot_manager.py:240-250
_deserialize_resource(d) ==
    [service_type |-> d.service_type, resource_id |-> d.resource_id,
     region |-> d.region, current_state |-> d.current_state,
     tags |-> d.tags, metadata |-> d.metadata,
     cost_per_hour |-> d.cost_per_hour]

\* snapshot_manager.py:252-261
_deserialize_operation_result(d) ==
    [success |-> d.success, resource |-> _deserialize_resource(d.resource),
     operation |-> d.operation, message |-> d.message,
     timestamp |-> fromisoformat(d.timestamp), duration |-> d.duration]

\* snapshot_manager.py:223-238; data.get(key, default) for the optional keys
_deserialize_snapshot(data) ==
    [snapshot_id |-> data.snapshot_id,
     timestamp |-> fromisoformat(data.timestamp),
     resources |-> IF "resources" \in DOMAIN data
                   THEN [i \in DOMAIN data.resources |->
                            _deserialize_resource(data.resources[i])]
                   ELSE << >>,
     original_states |-> IF "original_states" \in DOMAIN data
                         THEN data.original_states ELSE << >>,
     operation_results |->
         IF "operation_results" \in DOMAIN data
         THEN [i \in DOMAIN data.operation_results |->
                  _deserialize_operation_result(data.operation_results[i])]
         ELSE << >>,
     total_estimated_savings |->
         IF "total_estimated_savings" \in DOMAIN data
         THEN data.total_estimated_savings ELSE 0]

\* a file is a sequence of chunks; json.dump writes the document piece by
\* piece and the buffered file hands the pieces to the directory in order
NoBody == [snapshot_id |-> "none"]
Chunk(kind, body) == [kind |-> kind, body |-> body]
Doc(data) == << Chunk("open", NoBody), Chunk("body", data), Chunk("close", NoBody) >>
DocLen == Len(Doc(NoBody))

\* a file that is no JSON at all, and a JSON document without 'timestamp'
JunkFile == << Chunk("junk", NoBody) >>
LegacyFile == Doc([snapshot_id |-> "pause-1"])

\* whether json.load accepts the content
IsJson(content) ==
    /\ Len(content) = DocLen
    /\ content[1].kind = "open" /\ content[2].kind = "body"
    /\ content[3].kind = "close"

\* snapshot_manager.py:48-52
TargetOf(id) == id \o ".json"
TempOf(id) == id \o ".tmp"

\* write() of one chunk at offset pos of a file: what lies behind the end of
\* the file up to pos becomes a hole
WriteAt(content, pos, c) ==
    [i \in 1..(IF Len(content) > pos THEN Len(content) ELSE pos) |->
        IF i = pos THEN c
        ELSE IF i <= Len(content) THEN content[i]
        ELSE Chunk("hole", NoBody)]

\* the exception load_snapshot's try block meets: a file removed since the
\* exists() test, content json.load rejects, a document without a required
\* key or with a timestamp fromisoformat rejects
LoadException(present, content) ==
    IF ~present THEN "FileNotFoundError"
    ELSE IF ~IsJson(content) THEN "JSONDecodeError"
    ELSE IF ~({ "snapshot_id", "timestamp" } \subseteq DOMAIN content[2].body)
    THEN "KeyError"
    ELSE IF fromisoformat(content[2].body.timestamp).type = "ValueError"
    THEN "ValueError"
    ELSE "none"

\* an exception that leaves load_snapshot as it is
load_raises_unwrapped(exc) == exc

\* snapshot_manager.py:87-90: both except clauses raise StateError
load_raises(exc) == "StateError"

NoLoad == [kind |-> "none", value |-> NoBody, data |-> NoBody]
Savers == { "A", "B" }
SavedId == "pause-1"
LoadIds == { "pause-1", "pause-0" }

\* a snapshot directory that holds nothing, a snapshot saved earlier, a file
\* that is not JSON, or a JSON file without timestamp; no call is running
InitStore ==
    /\ PauseOff
    /\ CallerOff
    /\ RegistryOff
    /\ ResumeOff
    /\ DiscoverOff
    /\ _cancel_requested = FALSE
    /\ \/ fs = << >> /\ inode = << >>
       \/ /\ fs = [x \in { TargetOf(SavedId) } |-> 1]
          /\ \E c \in { Doc(json_dump(_serialize_snapshot(SaveInputs[2]))),
                        JunkFile, LegacyFile } : inode = << c >>
    /\ saver = [p \in Savers |->
                   [pc |-> "idle", input |-> 0, fd |-> 0, pos |-> 1,
                    result |-> "none"]]
    /\ loader = [pc |-> "idle", id |-> "none", result |-> NoLoad]
    /\ listing = NotListed
    /\ deleted = "none"

\* snapshot_manager.py:44-53: the snapshot is serialised and the temp file
\* opened for writing (created, or truncated when it exists)
SaveOpen(p, k, ok) ==
    /\ saver[p].pc = "idle"
    /\ IF ~ok
       THEN /\ saver' = [saver EXCEPT ![p].pc = "failed", ![p].input = k,
                                      ![p].result = "StateError"]
            /\ UNCHANGED << fs, inode >>
       ELSE LET temp == TempOf(SaveInputs[k].snapshot_id)
            IN  IF temp \in DOMAIN fs
                THEN /\ inode' = [inode EXCEPT ![fs[temp]] = << >>]
                     /\ saver' = [saver EXCEPT ![p].pc = "write", ![p].input = k,
                                               ![p].fd = fs[temp]]
                     /\ UNCHANGED fs
                ELSE /\ inode' = Append(inode, << >>)
                     /\ fs' = Put(fs, temp, Len(inode) + 1)
                     /\ saver' = [saver EXCEPT ![p].pc = "write", ![p].input = k,
                                               ![p].fd = Len(inode) + 1]
    /\ UNCHANGED << loader, listing, deleted, dvars, gvars, avars, rvars, hvars, pvars0,
                    _cancel_requested >>

\* snapshot_manager.py:53-54: the next piece of the document reaches the
\* file; after the last one the with block closes it
SaveWrite(p, ok) ==
    /\ saver[p].pc = "write"
    /\ IF ~ok
       THEN /\ saver' = [saver EXCEPT ![p].pc = "failed",
                                      ![p].result = "StateError"]
            /\ UNCHANGED inode
       ELSE LET doc == Doc(json_dump(_serialize_snapshot(SaveInputs[saver[p].input])))
                at == saver[p].pos
            IN  /\ inode' = [inode EXCEPT ![saver[p].fd] = WriteAt(@, at, doc[at])]
                /\ saver' = [saver EXCEPT
                               ![p].pos = at + 1,
                               ![p].pc = IF at = DocLen THEN "replace" ELSE "write"]
    /\ UNCHANGED << fs, loader, listing, deleted, dvars, gvars, avars, rvars, hvars, pvars0,
                    _cancel_requested >>

\* snapshot_manager.py:56-62: temp_file.replace(filepath)
SaveReplace(p, ok) ==
    /\ saver[p].pc = "replace"
    /\ LET id == SaveInputs[saver[p].input].snapshot_id
           temp == TempOf(id)
           target == TargetOf(id)
       IN  IF ok /\ temp \in DOMAIN fs
           THEN /\ fs' = [x \in ((DOMAIN fs) \cup { target }) \ { temp } |->
                             IF x = target THEN fs[temp] ELSE fs[x]]
                /\ saver' = [saver EXCEPT ![p].pc = "done", ![p].result = target]
           ELSE /\ saver' = [saver EXCEPT ![p].pc = "failed",
                                          ![p].result = "StateError"]
                /\ UNCHANGED fs
    /\ UNCHANGED << inode, loader, listing, deleted, dvars, gvars, avars, rvars, hvars, pvars0,
                    _cancel_requested >>

\* snapshot_manager.py:76-79
LoadExists(id) ==
    /\ loader.pc = "idle"
    /\ loader' = IF TargetOf(id) \in DOMAIN fs
                 THEN [loader EXCEPT !.pc = "open", !.id = id]
                 ELSE [pc |-> "done", id |-> id,
                       result |-> [NoLoad EXCEPT !.kind = "None"]]
    /\ UNCHANGED << fs, inode, saver, listing, deleted, dvars, gvars, avars, rvars, hvars, pvars0,
                    _cancel_requested >>

\* snapshot_manager.py:81-90
LoadRead ==
    /\ loader.pc = "open"
    /\ LET present == TargetOf(loader.id) \in DOMAIN fs
           content == IF present THEN inode[fs[TargetOf(loader.id)]] ELSE << >>
           exc == LoadException(present, content)
       IN  loader' =
             [loader EXCEPT
                !.pc = "done",
                !.result =
                    IF exc = "none"
                    THEN [kind |-> "snapshot",
                          value |-> _deserialize_snapshot(content[2].body),
                          data |-> content[2].body]
                    ELSE [NoLoad EXCEPT !.kind = load_raises(exc)]]
    /\ UNCHANGED << fs, inode, saver, listing, deleted, dvars, gvars, avars, rvars, hvars, pvars0,
                    _cancel_requested >>

\* snapshot_manager.py:119-143: the *.json files that can be read
ListSnapshots ==
    /\ listing = NotListed
    /\ listing' = [done |-> TRUE,
                    found |-> { x \in DOMAIN fs :
                                  /\ \E id \in LoadIds : x = TargetOf(id)
                                  /\ IsJson(inode[fs[x]]) }]
    /\ UNCHANGED << fs, inode, saver, loader, deleted, dvars, gvars, avars, rvars, hvars, pvars0,
                    _cancel_requested >>

\* snapshot_manager.py:145-161
DeleteSnapshot(id) ==
    /\ deleted = "none"
    /\ IF TargetOf(id) \in DOMAIN fs
       THEN /\ fs' = [x \in (DOMAIN fs) \ { TargetOf(id) } |-> fs[x]]
            /\ deleted' = "True"
       ELSE /\ deleted' = "False"
            /\ UNCHANGED fs
    /\ UNCHANGED << inode, saver, loader, listing, dvars, gvars, avars, rvars, hvars, pvars0,
                    _cancel_requested >>

NextStore ==
    \/ \E p \in Savers, k \in DOMAIN SaveInputs, ok \in BOOLEAN : SaveOpen(p, k, ok)
    \/ \E p \in Savers, ok \in BOOLEAN : SaveWrite(p, ok)
    \/ \E p \in Savers, ok \in BOOLEAN : SaveReplace(p, ok)
    \/ \E id \in LoadIds : LoadExists(id)
    \/ LoadRead
    \/ ListSnapshots
    \/ \E id \in LoadIds : DeleteSnapshot(id)

SpecStore == InitStore /\ [][NextStore]_vars

\* ------------------------------------------- pauses saved to one directory
\* the second and microsecond datetime.now() shows at the first Pause
FirstSecond == 8
FirstInstant == [s |-> FirstSecond, u |-> 0]

Digits == << "0", "1", "2", "3", "4", "5", "6", "7", "8", "9" >>

\* start_time.strftime('%S'): the second, two digits
strftime(t) == Digits[(t.s \div 10) + 1] \o Digits[(t.s % 10) + 1]

\* orchestrator.py:152: f"pause-{start_time.strftime('%Y%m%d-%H%M%S')}", of
\* which date, hour and minute are the same all through a run
snapshot_id(t) == "pause-" \o strftime(t)

\* the datetime of instant t; its time piece is the text isoformat() prints:
\* the two digits of the second and, unless it is zero, the microsecond
DtNow(t) ==
    Dt("2024-02-01", IF t.u = 0 THEN << t.s \div 10, t.s % 10 >>
                     ELSE << t.s \div 10, t.s % 10, t.u >>)

\* orchestrator.py:151-152, 229-237: the snapshot of a Pause of rs that
\* started at instant t
PauseAt(t, rs) ==
    [PausedSnapshot(rs) EXCEPT !.snapshot_id = snapshot_id(t),
                               !.timestamp = DtNow(t)]

StoreRDSEu == [StoreRDS EXCEPT !.region = "eu-west-1"]

\* the resource lists the Pause calls of SpecShelf are given
ShelfInputs == { << >>, << StoreRDS >>, << StoreRDSEu, StoreRDS >> }

\* the region arguments of load_latest_snapshot; "None" is no filter
LatestRegions == { "None", "us-east-1", "eu-west-1", "ap-south-1" }

\* Python's < on two str: the first differing character decides, a proper
\* prefix is smaller
RECURSIVE LexLess(_, _)
LexLess(x, y) ==
    IF x = << >> THEN y # << >>
    ELSE IF y = << >> THEN FALSE
    ELSE IF Head(x) # Head(y) THEN Head(x) < Head(y)
    ELSE LexLess(Tail(x), Tail(y))

\* < on two isoformat texts of one date
StrLess(a, b) == a.text[1] = b.text[1] /\ LexLess(a.text[3], b.text[3])

\* a set as a sequence, in some order (Path.glob yields in directory order)
RECURSIVE SetToSeq(_)
SetToSeq(S) ==
    IF S = {} THEN << >>
    ELSE LET x == CHOOSE y \in S : TRUE IN << x >> \o SetToSeq(S \ { x })

\* snapshot_manager.py:119-143
list_snapshots(dir, files) ==
    LET readable == { x \in DOMAIN dir : IsJson(files[dir[x]]) }
        info(x) == LET data == files[dir[x]][2].body
                   IN  [snapshot_id |-> data.snapshot_id,
                        timestamp |-> data.timestamp,
                        region |-> data.region,
                        resource_count |-> Len(data.resources),
                        total_estimated_savings |-> data.total_estimated_savings]
    IN  [i \in 1..Cardinality(readable) |-> info(SetToSeq(readable)[i])]

\* a sort that puts the oldest first
RECURSIVE sort_ascending(_)
sort_ascending(infos) ==
    IF infos = << >> THEN << >>
    ELSE LET rest == sort_ascending(Tail(infos))
             h == Head(infos)
             k == Cardinality({ i \in DOMAIN rest : StrLess(rest[i].timestamp, h.timestamp) })
         IN  SubSeq(rest, 1, k) \o << h >> \o SubSeq(rest, k + 1, Len(rest))

\* snapshot_manager.py:107 and 178:
\* snapshots.sort(key=lambda s: s.get('timestamp', ''), reverse=True)
RECURSIVE sort_descending(_)
sort_descending(infos) ==
    IF infos = << >> THEN << >>
    ELSE LET rest == sort_descending(Tail(infos))
             h == Head(infos)
             k == Cardinality({ i \in DOMAIN rest : StrLess(h.timestamp, rest[i].timestamp) })
         IN  SubSeq(rest, 1, k) \o << h >> \o SubSeq(rest, k + 1, Len(rest))

\* snapshot_manager.py:64-90 on a directory no Save is writing to
load_snapshot(dir, files, id) ==
    IF TargetOf(id) \notin DOMAIN dir THEN [NoLoad EXCEPT !.kind = "None"]
    ELSE LET content == files[dir[TargetOf(id)]]
             exc == LoadException(TRUE, content)
         IN  IF exc = "none"
             THEN [kind |-> "snapshot",
                   value |-> _deserialize_snapshot(content[2].body),
                   data |-> content[2].body]
             ELSE [NoLoad EXCEPT !.kind = load_raises(exc)]

\* snapshot_manager.py:109-117: the first listed snapshot that passes the
\* region test and loads
RECURSIVE first_loaded(_, _, _, _)
first_loaded(dir, files, infos, region) ==
    IF infos = << >> THEN [NoLoad EXCEPT !.kind = "None"]
    ELSE IF region # "None" /\ Head(infos).region # region
    THEN first_loaded(dir, files, Tail(infos), region)
    ELSE LET got == load_snapshot(dir, files, Head(infos).snapshot_id)
         IN  IF got.kind = "None" THEN first_loaded(dir, files, Tail(infos), region)
             ELSE got

\* snapshot_manager.py:92-117
load_latest_snapshot(dir, files, region) ==
    first_loaded(dir, files, sort_descending(list_snapshots(dir, files)), region)

\* a retention that deletes nothing
to_delete_none(infos, keep_count) == << >>

\* snapshot_manager.py:174-182: snapshots[keep_count:] of the sorted list,
\* nothing when len(snapshots) <= keep_count
to_delete(infos, keep_count) ==
    IF Len(infos) <= keep_count THEN << >>
    ELSE SubSeq(sort_descending(infos), keep_count + 1, Len(infos))

\* an empty snapshot directory, and a clock
InitShelf ==
    /\ PauseOff
    /\ ResumeOff
    /\ DiscoverOff
    /\ _cancel_requested = FALSE
    /\ fs = << >>
    /\ inode = << >>
    /\ saver = << >>
    /\ loader = << >>
    /\ listing = NotListed
    /\ deleted = "none"
    /\ now = FirstInstant
    /\ made = << >>
    /\ RegistryOff
    /\ answer = NoAnswer

\* orchestrator.py:141-245 followed by snapshot_manager.py:32-62: a Pause of
\* rs, whose snapshot the caller saves; the next call finds the clock a
\* microsecond or a second later
PauseAndSave(rs, later) ==
    /\ Len(made) < MaxPauses
    /\ LET snap == PauseAt(now, rs)
       IN  /\ made' = Append(made, [snapshot_id |-> snap.snapshot_id, at |-> now])
           /\ inode' = Append(inode, Doc(json_dump(_serialize_snapshot(snap))))
           /\ fs' = Put(fs, TargetOf(snap.snapshot_id), Len(inode) + 1)
    /\ now' = IF later = "second" THEN [s |-> now.s + 1, u |-> 0]
              ELSE [now EXCEPT !.u = @ + 1]
    /\ answer' = NoAnswer
    /\ UNCHANGED << saver, loader, listing, deleted, dvars, gvars, avars, rvars, pvars0,
                    _cancel_requested >>

\* snapshot_manager.py:92-117
LoadLatest(region) ==
    /\ answer' = [op |-> "latest", arg |-> region,
                  got |-> load_latest_snapshot(fs, inode, region)]
    /\ UNCHANGED << now, made, svars, dvars, gvars, avars, rvars, pvars0, _cancel_requested >>

\* snapshot_manager.py:163-186 with delete_snapshot (145-161) for each
\* snapshot beyond the keep_count newest
CleanupOldSnapshots(keep_count) ==
    /\ LET doomed == to_delete(list_snapshots(fs, inode), keep_count)
           gone == { TargetOf(doomed[i].snapshot_id) : i \in DOMAIN doomed }
                       \cap DOMAIN fs
       IN  /\ fs' = [x \in (DOMAIN fs) \ gone |-> fs[x]]
           /\ answer' = [op |-> "trim", arg |-> keep_count,
                         got |-> Cardinality(gone), before |-> fs]
    /\ UNCHANGED << now, made, inode, saver, loader, listing, deleted, dvars, gvars, avars,
                    rvars, pvars0, _cancel_requested >>

NextShelf ==
    \/ \E rs \in ShelfInputs, later \in { "microsecond", "second" } :
           PauseAndSave(rs, later)
    \/ \E region \in LatestRegions : LoadLatest(region)
    \/ \E keep_count \in 0..MaxPauses : CleanupOldSnapshots(keep_count)

SpecShelf == InitShelf /\ [][NextShelf]_vars

\* ------------------------------------------------ filters of operations.py
\* a dict as the set of its items; a key occurs in at most one item
HasKey(d, key) == \E kv \in d : kv[1] = key
Get(d, key) == (CHOOSE kv \in d : kv[1] = key)[2]

\* a requirement that looks at the key only
tag_matches_key_only(tags, kv) == HasKey(tags, kv[1])

\* operations.py:190 and 199: key in r.tags and r.tags[key] == value
tag_matches(tags, kv) == HasKey(tags, kv[1]) /\ Get(tags, kv[1]) = kv[2]

\* operations.py:186-191: one list comprehension per item of filters['tags']
RECURSIVE require_tags(_, _)
require_tags(rs, items) ==
    IF items = {} THEN rs
    ELSE LET kv == CHOOSE p \in items : TRUE
             Test(r) == tag_matches(r.tags, kv)
         IN  require_tags(SelectSeq(rs, Test), items \ { kv })

\* operations.py:195-200: one list comprehension per item of
\* filters['exclude_tags']: key not in r.tags or r.tags[key] != value
RECURSIVE exclude_tags(_, _)
exclude_tags(rs, items) ==
    IF items = {} THEN rs
    ELSE LET kv == CHOOSE p \in items : TRUE
             Test(r) == ~HasKey(r.tags, kv[1]) \/ Get(r.tags, kv[1]) # kv[2]
         IN  exclude_tags(SelectSeq(rs, Test), items \ { kv })

\* a filters dict: each of the six keys is absent (<< >>) or holds a value
NoFilters ==
    [service_types |-> << >>, regions |-> << >>, tags |-> << >>,
     exclude_tags |-> << >>, resource_ids |-> << >>,
     exclude_resource_ids |-> << >>]

\* an exclusion applied to the unfiltered list
exclude_ids_from_all(rs, filtered, ids) ==
    LET Test(r) == r.resource_id \notin ids IN SelectSeq(rs, Test)

\* operations.py:210: [r for r in filtered_resources if r.resource_id not in
\* exclude_ids]
exclude_ids(rs, filtered, ids) ==
    LET Test(r) == r.resource_id \notin ids IN SelectSeq(filtered, Test)

\* operations.py:156-213
_apply_resource_filters(rs, filters) ==
    IF filters = NoFilters THEN rs
    ELSE
    LET KindTest(r) == r.service_type \in filters.service_types[1]
        RegionTest(r) == r.region \in filters.regions[1]
        IdTest(r) == r.resource_id \in filters.resource_ids[1]
        f1 == IF filters.service_types # << >>
              THEN SelectSeq(rs, KindTest) ELSE rs
        f2 == IF filters.regions # << >> THEN SelectSeq(f1, RegionTest) ELSE f1
        f3 == IF filters.tags # << >> THEN require_tags(f2, filters.tags[1]) ELSE f2
        f4 == IF filters.exclude_tags # << >>
              THEN exclude_tags(f3, filters.exclude_tags[1]) ELSE f3
        f5 == IF filters.resource_ids # << >> THEN SelectSeq(f4, IdTest) ELSE f4
    IN  IF filters.exclude_resource_ids # << >>
        THEN exclude_ids(rs, f5, filters.exclude_resource_ids[1])
        ELSE f5

\* models.py:9-18: a Resource with region and tags
Tagged(kind, id, region, tags) ==
    [service_type |-> kind, resource_id |-> id, region |-> region,
     current_state |-> "running", tags |-> tags]

\* the resources the lists of SpecFilter are made of
FilterCatalogue ==
    << Tagged("ec2", "i-1", "us-east-1", { << "env", "prod" >> }),
       Tagged("rds", "db-1", "us-east-1", { }),
       Tagged("ec2", "i-2", "eu-west-1",
              { << "env", "dev" >>, << "team", "a" >>, << "owner", "x" >> }),
       Tagged("rds", "i-1", "eu-west-1",
              { << "env", "prod" >>, << "team", "a" >> }) >>

\* the values a filter key is given
ClauseValues ==
    [service_types |-> { { "ec2" }, { } },
     regions |-> { { "us-east-1" } },
     resource_ids |-> { { "i-1", "db-1" } },
     exclude_resource_ids |-> { { "i-1" } }]

\* the tags required and the tags excluded
TagItems == { << "env", "prod" >>, << "team", "a" >> }
ExcludedItems == { << "env", "dev" >>, << "team", "a" >> }

\* a list of resources, and no call yet
InitFilter ==
    /\ PauseOff
    /\ ResumeOff
    /\ DiscoverOff
    /\ StoreOff
    /\ _cancel_requested = FALSE
    /\ now = << >>
    /\ made = << >>
    /\ RegistryOff
    /\ \E S \in SUBSET (1..Len(FilterCatalogue)) :
           /\ Cardinality(S) <= MaxListed
           /\ answer = [op |-> "input", resources |-> SubSeqOf(FilterCatalogue, S, 1)]

Filtered(rs, filters, before) ==
    /\ answer' = [op |-> "filter", resources |-> rs, filters |-> filters,
                  got |-> _apply_resource_filters(rs, filters),
                  before |-> before]
    /\ UNCHANGED << now, made, svars, dvars, gvars, avars, rvars, pvars0, _cancel_requested >>

\* _apply_resource_filters(resources, None) and
\* _apply_resource_filters(resources, {'tags': {}})
ApplyNoFilters(with_tags) ==
    /\ answer.op = "input"
    /\ Filtered(answer.resources,
                IF with_tags THEN [NoFilters EXCEPT !.tags = << { } >>]
                ELSE NoFilters, << >>)

\* the call repeated with one more key in filters
ApplyWithKey(key, value) ==
    /\ answer.op = "filter"
    /\ answer.filters[key] = << >>
    /\ Filtered(answer.resources, [answer.filters EXCEPT ![key] = << value >>],
                << answer.got >>)

\* the call repeated with one more item in filters['tags'] or
\* filters['exclude_tags']
ApplyWithItem(key, kv) ==
    /\ answer.op = "filter"
    /\ IF answer.filters[key] = << >> THEN TRUE
       ELSE ~HasKey(answer.filters[key][1], kv[1])
    /\ LET items == IF answer.filters[key] = << >> THEN { }
                    ELSE answer.filters[key][1]
       IN  Filtered(answer.resources,
                    [answer.filters EXCEPT ![key] = << items \cup { kv } >>],
                    << answer.got >>)

NextFilter ==
    \/ \E with_tags \in BOOLEAN : ApplyNoFilters(with_tags)
    \/ \E key \in DOMAIN ClauseValues :
           \E value \in ClauseValues[key] : ApplyWithKey(key, value)
    \/ \E kv \in TagItems : ApplyWithItem("tags", kv)
    \/ \E kv \in ExcludedItems : ApplyWithItem("exclude_tags", kv)

SpecFilter == InitFilter /\ [][NextFilter]_vars

\* ------------------------------------------- comprehensive_pause, dry run
\* results that report the pause as done
_generate_dry_run_results_done(rs) ==
    [i \in DOMAIN rs |-> _create_operation_result(rs[i], "pause", TRUE, "paused")]

\* operations.py:254-277
_generate_dry_run_results(rs) ==
    [i \in DOMAIN rs |->
        _create_operation_result(rs[i], "pause", TRUE, "[DRY RUN] Would pause")]

\* the resource_filters of the calls of SpecDryRun
DryFilters ==
    { NoFilters,
      [NoFilters EXCEPT !.service_types = << { "ecs", "ec2" } >>],
      [NoFilters EXCEPT !.resource_ids = << { "fn-1", "i-1" } >>],
      [NoFilters EXCEPT !.exclude_resource_ids = << { "web" } >>,
                        !.regions = << { "us-east-1" } >>] }

\* operations.py:63-92: comprehensive_pause(resource_filters, dry_run) once
\* discover_all_resources has returned
ComprehensivePauseWith(resource_filters, dry_run) ==
    /\ phase = "idle"
    /\ via' = IF dry_run THEN "dry_run" ELSE "comprehensive"
    /\ answer' = [op |-> "comprehensive_pause", filters |-> resource_filters]
    /\ LET filtered_resources == _apply_resource_filters(discovered, resource_filters)
           pausable_resources == _filter_pausable_resources(filtered_resources)
       IN  IF discovered = << >> \/ pausable_resources = << >>
           THEN /\ phase' = "end"
                /\ UNCHANGED << dvars, gvars, avars, rvars, svars, now, made, discovered, resources,
                                max_workers, cloud, calls, _cancel_requested, pc,
                                fi, si, original_states, task, yielded,
                                operation_results, snapshot, further, escaped >>
           ELSE IF dry_run
           THEN /\ phase' = "end"
                /\ operation_results' = _generate_dry_run_results(pausable_resources)
                /\ UNCHANGED << dvars, gvars, avars, rvars, svars, now, made, discovered, resources,
                                max_workers, cloud, calls, _cancel_requested, pc,
                                fi, si, original_states, task, yielded,
                                snapshot, further, escaped >>
           ELSE /\ resources' = pausable_resources
                /\ phase' = "pause"
                /\ pc' = "freeze"
                /\ fi' = 1
                /\ si' = 1
                /\ original_states' = << >>
                /\ task' = [i \in DOMAIN pausable_resources |-> NoTask]
                /\ yielded' = {}
                /\ operation_results' = << >>
                /\ further' = 0
                /\ UNCHANGED << dvars, gvars, avars, rvars, svars, now, made, discovered,
                                max_workers, cloud, calls, _cancel_requested,
                                snapshot, escaped >>

\* comprehensive_pause, for real or as a dry run
NextDryRun ==
    \/ \E resource_filters \in DryFilters, dry_run \in BOOLEAN :
           ComprehensivePauseWith(resource_filters, dry_run)
    \/ Freeze
    \/ \E esc \in BOOLEAN : Submit(esc)
    \/ WorkerStart
    \/ \E i \in DOMAIN task, oc \in PoolOutcomes : WorkerFinish(i, oc)
    \/ \E i \in DOMAIN task, esc \in BOOLEAN : Collect(i, esc)
    \/ PauseReturn

SpecDryRun == InitPool /\ [][NextDryRun]_vars

\* ------------------------------------------------- get_operation_summary
\* a count that leaves failures out
counted_success_only(entry, ok) ==
    [entry EXCEPT !.total = @ + 1, !.success = IF ok THEN @ + 1 ELSE @]

\* orchestrator.py:345-349: total += 1, then success or failed += 1
counted(entry, ok) ==
    [entry EXCEPT !.total = @ + 1,
                  !.success = IF ok THEN @ + 1 ELSE @,
                  !.failed = IF ok THEN @ ELSE @ + 1]

\* orchestrator.py:339-349: the loop that groups by service type
RECURSIVE group_by_service(_, _)
group_by_service(results, by_service) ==
    IF results = << >> THEN by_service
    ELSE LET service_type == Head(results).resource.service_type
             entry == IF service_type \in DOMAIN by_service
                      THEN by_service[service_type]
                      ELSE [success |-> 0, failed |-> 0, total |-> 0]
         IN  group_by_service(Tail(results),
                 Put(by_service, service_type, counted(entry, Head(results).success)))

\* orchestrator.py:352: sum(r.duration or 0 for r in operation_results)
RECURSIVE sum_duration(_)
sum_duration(results) ==
    IF results = << >> THEN 0
    ELSE (IF Head(results).duration = << >> THEN 0 ELSE Head(results).duration[1])
         + sum_duration(Tail(results))

\* orchestrator.py:358: a / b if operation_results else 0; the quotient of two
\* ints is kept as the fraction it stands for
true_division(a, b) == IF b = 0 THEN [num |-> 0, den |-> 1] ELSE [num |-> a, den |-> b]

\* orchestrator.py:326-370
get_operation_summary(results) ==
    LET IsOk(r) == r.success
        IsFailed(r) == ~r.success
        successful_operations == SelectSeq(results, IsOk)
        failed_operations == SelectSeq(results, IsFailed)
    IN  [total_operations |-> Len(results),
         successful_operations |-> Len(successful_operations),
         failed_operations |-> Len(failed_operations),
         success_rate |-> true_division(Len(successful_operations), Len(results)),
         total_duration_seconds |-> sum_duration(results),
         by_service_type |-> group_by_service(results, << >>),
         failed_resources |->
             [i \in DOMAIN failed_operations |->
                 [service_type |-> failed_operations[i].resource.service_type,
                  resource_id |-> failed_operations[i].resource.resource_id,
                  region |-> failed_operations[i].resource.region,
                  error_message |-> failed_operations[i].message]]]

\* models.py:21-29: the results the lists of SpecSummary are made of: two
\* kinds, success or failure, with or without a duration
ResultItems ==
    { [success |-> ok, resource |-> r, operation |-> "pause",
       message |-> IF ok THEN "paused" ELSE "ServiceError", duration |-> d] :
        ok \in BOOLEAN,
        r \in { FilterCatalogue[1], FilterCatalogue[2] },
        d \in { << >>, << 2 >> } }

\* the lists of at most n results
RECURSIVE ResultLists(_)
ResultLists(n) ==
    IF n = 0 THEN { << >> }
    ELSE ResultLists(n - 1)
         \cup { Append(l, x) : l \in { m \in ResultLists(n - 1) : Len(m) = n - 1 },
                               x \in ResultItems }

\* a list of results, and no call yet
InitSummary ==
    /\ PauseOff
    /\ ResumeOff
    /\ DiscoverOff
    /\ StoreOff
    /\ _cancel_requested = FALSE
    /\ now = << >>
    /\ made = << >>
    /\ RegistryOff
    /\ \E l \in ResultLists(MaxResults) :
           answer = [op |-> "input", results |-> l]

\* orchestrator.py:326-370: the call reads the list and builds the summary
Summarize ==
    /\ answer.op = "input"
    /\ answer' = [op |-> "summary", given |-> answer.results,
                  results |-> answer.results,
                  got |-> get_operation_summary(answer.results)]
    /\ UNCHANGED << now, made, svars, dvars, gvars, avars, rvars, pvars0, _cancel_requested >>

NextSummary == Summarize

SpecSummary == InitSummary /\ [][NextSummary]_vars

\* ------------------------------------------------- a discovery of 11 pairs
\* the regions list of an orchestrator that covers eleven regions
WideRegions ==
    << "us-east-1", "us-east-2", "us-west-1", "us-west-2", "eu-west-1",
       "eu-west-2", "eu-central-1", "ap-south-1", "ap-southeast-1",
       "ap-northeast-1", "sa-east-1" >>

\* an orchestrator with eleven regions asked for one kind: 11 enumerate
\* calls for the 10 threads of the discovery executor
InitWide ==
    /\ PauseOff
    /\ ResumeOff
    /\ StoreOff
    /\ CallerOff
    /\ RegistryOff
    /\ _cancel_requested = FALSE
    /\ regions = WideRegions
    /\ service_types = << "ec2" >>
    /\ world = "empty"
    /\ dphase = "idle"
    /\ dsi = 1
    /\ dtask = << >>
    /\ dyielded = {}
    /\ all_resources = << >>
    /\ discovery_errors = 0
    /\ dreturn = "none"

\* the discovery without ESC and without a failing enumerate
NextWide ==
    \/ DiscoverAll
    \/ DSubmit(FALSE)
    \/ DWorkerStart
    \/ \E i \in DOMAIN dtask : DWorkerFinish(i, "ok")
    \/ \E i \in DOMAIN dtask : DCollect(i, FALSE)
    \/ DiscoverReturn

\* the wide discovery, or a Pause followed by a Resume with a small pool
SpecLimits == (InitWide \/ InitPool) /\ [][NextWide \/ NextPool]_vars

\* ------------------------------------------------------ driver registry
\* the threads that call get_service_manager of one orchestrator
Callers == { "T1", "T2" }

\* the (kind, region) pairs asked for; "s3" is a kind the registry lacks
AskedKeys == { << "ec2", "us-east-1" >>, << "s3", "us-east-1" >> }

IdleCall == [pc |-> "idle", key |-> << "", "" >>, n |-> 0, log |-> << >>]

\* a new orchestrator (orchestrator.py:26-45): the cache is empty
InitRegistry ==
    /\ PauseOff
    /\ ResumeOff
    /\ DiscoverOff
    /\ StoreOff
    /\ CallerOff
    /\ _cancel_requested = FALSE
    /\ _manager_cache = << >>
    /\ built = << >>
    /\ gcall = [t \in Callers |-> IdleCall]
    /\ asg = << >>
    /\ adrv = << >>

RegistryFrame ==
    UNCHANGED << dvars, rvars, svars, hvars, avars, pvars0, _cancel_requested >>

\* orchestrator.py:58: thread t enters get_service_manager(kind, region)
GetServiceManager(t, key) ==
    /\ gcall[t].pc = "idle"
    /\ gcall[t].n < MaxCalls
    /\ gcall' = [gcall EXCEPT ![t].pc = "check", ![t].key = key, ![t].n = @ + 1]
    /\ UNCHANGED << _manager_cache, built >>
    /\ RegistryFrame

\* orchestrator.py:60-63: the membership tests; an unknown kind raises
\* ServiceError
CacheLookup(t) ==
    /\ gcall[t].pc = "check"
    /\ gcall' =
           IF gcall[t].key \in DOMAIN _manager_cache
           THEN [gcall EXCEPT ![t].pc = "return"]
           ELSE IF get_service_manager(gcall[t].key[1]) = "ServiceError"
           THEN [gcall EXCEPT ![t].pc = "idle",
                              ![t].log = Append(@, [key |-> gcall[t].key,
                                                    raised |-> TRUE, driver |-> 0])]
           ELSE [gcall EXCEPT ![t].pc = "construct"]
    /\ UNCHANGED << _manager_cache, built >>
    /\ RegistryFrame

\* orchestrator.py:65-66: manager_class(self.session, region) is constructed
\* and stored under the key
Construct(t) ==
    /\ gcall[t].pc = "construct"
    /\ built' = Append(built, gcall[t].key)
    /\ _manager_cache' = Put(_manager_cache, gcall[t].key, Len(built) + 1)
    /\ gcall' = [gcall EXCEPT ![t].pc = "return"]
    /\ RegistryFrame

\* orchestrator.py:68: return self._manager_cache[cache_key]
ReturnManager(t) ==
    /\ gcall[t].pc = "return"
    /\ gcall' = [gcall EXCEPT ![t].pc = "idle",
                              ![t].log = Append(@, [key |-> gcall[t].key,
                                                    raised |-> FALSE,
                                                    driver |-> _manager_cache[gcall[t].key]])]
    /\ UNCHANGED << _manager_cache, built >>
    /\ RegistryFrame

NextRegistry ==
    \/ \E t \in Callers, key \in AskedKeys : GetServiceManager(t, key)
    \/ \E t \in Callers : CacheLookup(t)
    \/ \E t \in Callers : Construct(t)
    \/ \E t \in Callers : ReturnManager(t)

SpecRegistry == InitRegistry /\ [][NextRegistry]_vars

\* ------------------------------------------- ECS enumerate: derived state
\* a derivation that compares the counts first
ecs_current_state_counts_first(desired_count, running_count) ==
    IF running_count = desired_count THEN "running"
    ELSE IF desired_count = 0 THEN "stopped"
    ELSE IF running_count < desired_count THEN "scaling_up"
    ELSE "scaling_down"

\* ecs.py:80-90
ecs_current_state(desired_count, running_count) ==
    IF desired_count = 0 THEN "stopped"
    ELSE IF running_count = desired_count THEN "running"
    ELSE IF running_count < desired_count THEN "scaling_up"
    ELSE "scaling_down"

\* ecs.py:63-113: what the loop body appends for one service of
\* describe_services: nothing for a service that is not ACTIVE
ecs_discover_service(service) ==
    IF service.status # "ACTIVE" THEN << >>
    ELSE << [service_type |-> "ecs", resource_id |-> service.serviceName,
             region |-> "us-east-1",
             current_state |-> ecs_current_state(service.desiredCount,
                                                 service.runningCount),
             metadata |-> [cluster_arn |-> "cluster-a",
                           desired_count |-> service.desiredCount,
                           running_count |-> service.runningCount,
                           pending_count |-> service.pendingCount]] >>

\* a service as describe_services reports it
InitEcs ==
    /\ PauseOff
    /\ ResumeOff
    /\ DiscoverOff
    /\ StoreOff
    /\ RegistryOff
    /\ _cancel_requested = FALSE
    /\ now = << >>
    /\ made = << >>
    /\ \E d \in 0..MaxCount, n \in 0..MaxCount, st \in { "ACTIVE", "DRAINING" } :
           answer = [op |-> "input",
                     service |-> [serviceName |-> "web", status |-> st,
                                  desiredCount |-> d, runningCount |-> n,
                                  pendingCount |-> IF n < d THEN d - n ELSE 0]]

\* ecs.py:63-113: the loop body for the service
EcsEnumerate ==
    /\ answer.op = "input"
    /\ answer' = [op |-> "ecs", service |-> answer.service,
                  got |-> ecs_discover_service(answer.service)]
    /\ UNCHANGED << now, made, svars, dvars, gvars, avars, rvars, pvars0, _cancel_requested >>

NextEcs == EcsEnumerate

SpecEcs == InitEcs /\ [][NextEcs]_vars

\* ------------------------------------------ instance-group pause, by step
\* autoscaling.py:123-126
processes_to_suspend ==
    { "Launch", "Terminate", "HealthCheck", "ReplaceUnhealthy", "AZRebalance",
      "AlarmNotification", "ScheduledActions", "AddToLoadBalancer" }

\* the groups pause_resource is called on, as enumerate reported them
\* (autoscaling.py:47-60): running, suspended, paused
AsgInputs ==
    { [current_state |-> "running", desired_capacity |-> 2, suspended_processes |-> { }],
      [current_state |-> "suspended", desired_capacity |-> 1,
       suspended_processes |-> { "Launch" }],
      [current_state |-> "paused", desired_capacity |-> 0,
       suspended_processes |-> { "Launch" }] }

AsgCall(name, processes, capacity, ok) ==
    [name |-> name, processes |-> processes, capacity |-> capacity, ok |-> ok]

\* a try block that goes on after a call raised
after_call_unguarded(ok, next) == next

\* autoscaling.py:154-163: a call that raises leaves the try block for the
\* except clause, which returns the failed result
after_call(ok, next) == IF ok THEN next ELSE "failed"

\* a sleep that lets no time pass
slept_frozen(elapsed, d) == elapsed

\* autoscaling.py:263 and 267: time.sleep(30), and the time the describe call
\* took on top of it
slept(elapsed, d) == elapsed + PollSleep + d

\* pause_resource is about to be called on a group
InitAsg ==
    /\ PauseOff
    /\ ResumeOff
    /\ DiscoverOff
    /\ StoreOff
    /\ CallerOff
    /\ _cancel_requested = FALSE
    /\ _manager_cache = << >>
    /\ built = << >>
    /\ gcall = << >>
    /\ \E r \in AsgInputs, n \in 0..MaxInService :
           /\ asg = [in_service |-> n, desired |-> r.desired_capacity,
                     suspended |-> r.suspended_processes]
           /\ adrv = [pc |-> "begin", resource |-> r, calls |-> << >>,
                      elapsed |-> 0, polled |-> FALSE, poll_failed |-> FALSE,
                      seen |-> << >>, success |-> FALSE, message |-> ""]

AsgFrame ==
    UNCHANGED << dvars, gvars, rvars, svars, hvars, pvars0, _cancel_requested >>

Finished(ok, msg) == [adrv EXCEPT !.pc = "done", !.success = ok, !.message = msg]

\* autoscaling.py:111-120: a group that is already paused is refused
AsgBegin ==
    /\ adrv.pc = "begin"
    /\ adrv' = IF adrv.resource.current_state = "paused"
               THEN Finished(FALSE, "is already paused")
               ELSE [adrv EXCEPT !.pc = "suspend"]
    /\ UNCHANGED asg
    /\ AsgFrame

\* autoscaling.py:128-131: suspend_processes returns or raises
AsgSuspend(ok) ==
    /\ adrv.pc = "suspend"
    /\ adrv' = [adrv EXCEPT !.pc = after_call(ok, "set_desired"),
                            !.calls = Append(@, AsgCall("suspend_processes",
                                                        processes_to_suspend, 0, ok))]
    /\ asg' = IF ok THEN [asg EXCEPT !.suspended = @ \cup processes_to_suspend]
              ELSE asg
    /\ AsgFrame

\* autoscaling.py:134-138: set_desired_capacity(0) returns or raises
AsgSetDesired(ok) ==
    /\ adrv.pc = "set_desired"
    /\ adrv' = [adrv EXCEPT !.pc = after_call(ok, "wait"),
                            !.calls = Append(@, AsgCall("set_desired_capacity",
                                                        { }, 0, ok))]
    /\ asg' = IF ok THEN [asg EXCEPT !.desired = 0] ELSE asg
    /\ AsgFrame

\* autoscaling.py:246-267: one turn of the while loop of
\* _wait_for_capacity_change(target_capacity=0): the describe call returns
\* the group, returns no group, or raises; d is the time the call took
AsgPoll(outcome, d) ==
    /\ adrv.pc = "wait"
    /\ adrv.elapsed < max_wait_time
    /\ adrv' =
           IF outcome = "found" /\ asg.in_service = 0
           THEN [adrv EXCEPT !.pc = "converged", !.polled = TRUE,
                             !.seen = << asg.in_service >>]
           ELSE [adrv EXCEPT !.polled = TRUE,
                             !.elapsed = slept(@, d),
                             !.seen = IF outcome = "found" THEN << asg.in_service >>
                                      ELSE << >>,
                             !.poll_failed = IF outcome = "found" THEN @ ELSE TRUE]
    /\ UNCHANGED asg
    /\ AsgFrame

\* autoscaling.py:269-270: the loop ran out of time and ServiceError is raised
AsgTimeout ==
    /\ adrv.pc = "wait"
    /\ adrv.elapsed >= max_wait_time
    /\ adrv' = [adrv EXCEPT !.pc = "failed"]
    /\ UNCHANGED asg
    /\ AsgFrame

\* autoscaling.py:143-163: the result pause_resource returns
AsgReturn ==
    /\ adrv.pc \in { "converged", "failed" }
    /\ adrv' = IF adrv.pc = "converged" THEN Finished(TRUE, "Successfully paused")
               ELSE Finished(FALSE, "Failed to pause")
    /\ UNCHANGED asg
    /\ AsgFrame

\* the cloud terminates or launches an instance of the group
AsgCloud(n) ==
    /\ adrv.pc \notin { "begin", "done" }
    /\ n # asg.in_service
    /\ asg' = [asg EXCEPT !.in_service = n]
    /\ UNCHANGED adrv
    /\ AsgFrame

AsgDriverStep ==
    \/ AsgBegin
    \/ \E ok \in BOOLEAN : AsgSuspend(ok)
    \/ \E ok \in BOOLEAN : AsgSetDesired(ok)
    \/ \E outcome \in { "found", "not_found", "error" }, d \in { 0, PollSleep } :
           AsgPoll(outcome, d)
    \/ AsgTimeout
    \/ AsgReturn

NextAsg ==
    \/ AsgDriverStep
    \/ \E n \in 0..MaxInService : AsgCloud(n)

SpecAsg == InitAsg /\ [][NextAsg]_vars

\* every cloud call the driver makes returns or raises, and sleep returns
SpecAsgFair == SpecAsg /\ WF_vars(AsgDriverStep)

\* ------------------------------------- calls made while the flag is set
\* keyboard.py:21-25 and 132-144: _cancel_requested is a module-level Event
\* that only reset_cancel clears, so an operation finds it as the one before
\* left it.  An account of the first n pool objects and the flag either way.
InitLatchedPool ==
    \E n \in 0..MaxTasks, w \in 1..MaxWorkers :
        LET d == SubSeq(PoolCatalogue, 1, n)
        IN  /\ discovered = d
            /\ via = "none"
            /\ resources = << >>
            /\ max_workers = w
            /\ cloud = [o \in Objs(d) |-> CloudOf(CHOOSE r \in Range(d) : ObjOf(r) = o)]
            /\ calls = [o \in Objs(d) |-> << >>]
            /\ _cancel_requested \in BOOLEAN
            /\ phase = "idle"
            /\ pc = "done"
            /\ fi = 1
            /\ si = 1
            /\ original_states = << >>
            /\ task = << >>
            /\ yielded = {}
            /\ operation_results = << >>
            /\ snapshot = NoSnapshot
            /\ further = 0
            /\ escaped = FALSE
            /\ DiscoverOff
            /\ ResumeOff
            /\ StoreOff
            /\ CallerOff
            /\ RegistryOff

InitLatched == InitLatchedPool \/ InitDiscover

\* the operations of the orchestrator with no key pressed while they run:
\* poll_escape() finds nothing (keyboard.py:116-122)
NextLatched ==
    \/ PauseResources
    \/ Freeze
    \/ Submit(FALSE)
    \/ WorkerStart
    \/ \E i \in DOMAIN task, oc \in PoolOutcomes : WorkerFinish(i, oc)
    \/ \E i \in DOMAIN task : Collect(i, FALSE)
    \/ PauseReturn
    \/ ResetCancel
    \/ ResumeResources
    \/ ResumeReturn
    \/ DiscoverAll
    \/ DSubmit(FALSE)
    \/ DWorkerStart
    \/ \E i \in DOMAIN dtask, oc \in { "ok", "raise" } : DWorkerFinish(i, oc)
    \/ \E i \in DOMAIN dtask : DCollect(i, FALSE)
    \/ DiscoverReturn

SpecLatched == InitLatched /\ [][NextLatched]_vars

\* ------------------------------------------- the calls run to their end
\* an account of the first n <= MaxQueued pool objects, and a small pool
InitFew ==
    \E n \in 0..MaxQueued, w \in 1..MaxWorkers :
        /\ InitWith(SubSeq(PoolCatalogue, 1, n), w)
        /\ DiscoverOff
        /\ ResumeOff
        /\ StoreOff
        /\ CallerOff
        /\ RegistryOff

\* the steps of the thread that runs pause_resources or resume_resources:
\* the loops of orchestrator.py:154-221 and 264-316 and the return
PoolCallerStep ==
    \/ Freeze
    \/ \E esc \in BOOLEAN : Submit(esc)
    \/ \E i \in DOMAIN task, esc \in BOOLEAN : Collect(i, esc)
    \/ PauseReturn
    \/ ResumeReturn

\* the steps of the worker threads of the pause and resume executors: a
\* started driver call returns or raises
PoolWorkerStep ==
    \/ WorkerStart
    \/ \E i \in DOMAIN task, oc \in PoolOutcomes : WorkerFinish(i, oc)

\* the steps of the thread that runs discover_all_resources
\* (orchestrator.py:94-139)
DiscoverCallerStep ==
    \/ \E esc \in BOOLEAN : DSubmit(esc)
    \/ \E i \in DOMAIN dtask, esc \in BOOLEAN : DCollect(i, esc)
    \/ DiscoverReturn

\* the steps of the worker threads of the discovery executor
DiscoverWorkerStep ==
    \/ DWorkerStart
    \/ \E i \in DOMAIN dtask, oc \in { "ok", "raise" } : DWorkerFinish(i, oc)

\* the operations are invoked by the caller, who may also not invoke them
NextTerminates ==
    \/ PauseResources
    \/ ResetCancel
    \/ ResumeResources
    \/ PoolCallerStep
    \/ PoolWorkerStep
    \/ DiscoverAll
    \/ DiscoverCallerStep
    \/ DiscoverWorkerStep

\* threads are scheduled, and every started driver call returns or raises
SpecTerminates ==
    /\ InitFew \/ InitDiscover
    /\ [][NextTerminates]_vars
    /\ WF_vars(PoolCallerStep)
    /\ WF_vars(PoolWorkerStep)
    /\ WF_vars(DiscoverCallerStep)
    /\ WF_vars(DiscoverWorkerStep)

\* ------------------------------- comprehensive_pause and the region list
\* the regions arguments tried: None, one region outside the configured
\* list, two regions in another order
RegionOverrides ==
    { << >>, << "ap-south-1" >>, << "eu-west-1", "us-east-1" >> }

\* the resource_filters arguments tried: None, and one no resource passes
OverrideFilters ==
    { NoFilters, [NoFilters EXCEPT !.service_types = << { "ecs" } >>] }

\* code after the body that runs on a return only
finally_on_return_only(exit) == exit # "raised"

\* operations.py:104-108: the finally clause runs on every way out of the try
\* block
finally_runs(exit) == TRUE

OverrideFrame ==
    UNCHANGED << service_types, world, dphase, dsi, dtask, dyielded, all_resources,
                 discovery_errors, dreturn, gvars, avars, rvars, svars, now, made,
                 pvars0, _cancel_requested >>

\* operations.py:57-62: comprehensive_pause(regions, resource_filters,
\* dry_run) begins; "if regions:" saves and replaces the orchestrator's list
CpBegin(regions_arg, resource_filters, dry_run) ==
    /\ answer = NoAnswer
    /\ dphase = "idle"
    /\ answer' = [op |-> "comprehensive_pause", pc |-> "discover",
                  regions_arg |-> regions_arg,
                  original_regions |-> IF regions_arg # << >> THEN << regions >>
                                       ELSE << >>,
                  before |-> regions, filters |-> resource_filters,
                  dry_run |-> dry_run, exit |-> "none"]
    /\ regions' = IF regions_arg # << >> THEN regions_arg ELSE regions
    /\ OverrideFrame

\* operations.py:66: self.orchestrator.discover_all_resources(service_types)
CpDiscover ==
    /\ answer.op = "comprehensive_pause"
    /\ DiscoverAll

\* operations.py:66-87: discover_all_resources has returned or raised; the
\* early returns
CpAfterDiscover(raised) ==
    /\ answer.op = "comprehensive_pause"
    /\ dphase = "returned"
    /\ answer.pc = "discover"
    /\ LET filtered_resources == _apply_resource_filters(all_resources, answer.filters)
           pausable_resources == _filter_pausable_resources(filtered_resources)
           exit == IF raised THEN "raised"
                   ELSE IF all_resources = << >> THEN "nothing_found"
                   ELSE IF pausable_resources = << >> THEN "nothing_pausable"
                   ELSE IF answer.dry_run THEN "dry_run"
                   ELSE "none"
       IN  answer' = [answer EXCEPT !.pc = IF exit = "none" THEN "pause" ELSE "finally",
                                    !.exit = exit]
    /\ UNCHANGED regions
    /\ OverrideFrame

\* operations.py:91-102: self.orchestrator.pause_resources(pausable_resources)
\* returns or raises; it does not touch the region list
CpPause(raised) ==
    /\ answer.op = "comprehensive_pause"
    /\ answer.pc = "pause"
    /\ answer' = [answer EXCEPT !.pc = "finally",
                                !.exit = IF raised THEN "raised" ELSE "normal"]
    /\ UNCHANGED regions
    /\ OverrideFrame

\* operations.py:104-108: the way out of comprehensive_pause
CpFinally ==
    /\ answer.op = "comprehensive_pause"
    /\ answer.pc = "finally"
    /\ regions' = IF finally_runs(answer.exit) /\ answer.regions_arg # << >>
                  THEN answer.original_regions[1]
                  ELSE regions
    /\ answer' = [answer EXCEPT !.pc = "returned"]
    /\ OverrideFrame

NextOverride ==
    \/ \E regions_arg \in RegionOverrides, resource_filters \in OverrideFilters,
          dry_run \in BOOLEAN : CpBegin(regions_arg, resource_filters, dry_run)
    \/ CpDiscover
    \/ \E esc \in BOOLEAN : DSubmit(esc)
    \/ DWorkerStart
    \/ \E i \in DOMAIN dtask, oc \in { "ok", "raise" } : DWorkerFinish(i, oc)
    \/ \E i \in DOMAIN dtask, esc \in BOOLEAN : DCollect(i, esc)
    \/ DiscoverReturn
    \/ \E raised \in BOOLEAN : CpAfterDiscover(raised)
    \/ \E raised \in BOOLEAN : CpPause(raised)
    \/ CpFinally

SpecOverride == InitDiscover /\ [][NextOverride]_vars

\* ------------------------------------------------------------ properties
Recorded(r, states) == Key(r) \in DOMAIN states

\* C1: in Pause, once any driver pause call has been submitted (or any result
\* exists), the freeze loop is over and original_states has an entry for
\* every input resource; while the freeze loop runs no driver call has
\* started and no cloud call has been issued.
C1_FreezeBeforeFanOut ==
    phase = "pause" =>
        /\ (Submitted # {} \/ operation_results # << >>) =>
               /\ pc # "freeze"
               /\ \A i \in DOMAIN resources : Recorded(resources[i], original_states)
        /\ pc = "freeze" =>
               /\ Submitted = {}
               /\ \A o \in DOMAIN calls : calls[o] = << >>

\* a driver pause call is running in a Pause of three resources
C1_Witness ==
    /\ phase = "pause" /\ Len(resources) = 3
    /\ \E i \in DOMAIN task : task[i].st = "running" /\ task[i].runs = 1

\* C2: for every resource r of the snapshot Pause returned,
\* original_states[key of r] is r's state and metadata as enumerated.
C2_StatePreserved ==
    snapshot.snapshot_id = "pause" =>
        \A i \in DOMAIN snapshot.resources :
            LET r == snapshot.resources[i]
            IN  /\ Recorded(r, snapshot.original_states)
                /\ snapshot.original_states[Key(r)] = FrozenState(r)

\* C3: every snapshot Pause returns has, for each of its resources, the
\* resource's composite key among the keys of original_states, whatever
\* failed and wherever cancellation was observed.
C3_SnapshotComplete ==
    snapshot.snapshot_id = "pause" =>
        \A i \in DOMAIN snapshot.resources :
            Recorded(snapshot.resources[i], snapshot.original_states)

\* a cancelled Pause of three resources returned a snapshot in which a pause
\* failed and a driver could not be created
C3_Witness ==
    /\ phase = "between" /\ _cancel_requested
    /\ Len(snapshot.resources) = 3
    /\ Len(snapshot.operation_results) < 3
    /\ \E j \in DOMAIN snapshot.operation_results :
           snapshot.operation_results[j].message = "Failed to get service manager"
    /\ \E j \in DOMAIN snapshot.operation_results :
           snapshot.operation_results[j].message = "Failed to pause"

\* the results of list rs that are about resource r
ResultsFor(rs, r) == { j \in DOMAIN rs : rs[j].resource = r }

\* resume_resources has returned
ResumeEnded == phase = "end" /\ snapshot.snapshot_id = "pause"

\* every resource of the snapshot has exactly one result, of op resume
OneResumeResultEach ==
    /\ Len(operation_results) = Len(snapshot.resources)
    /\ \A i \in DOMAIN snapshot.resources :
           /\ Cardinality(ResultsFor(operation_results, snapshot.resources[i])) = 1
           /\ \A j \in ResultsFor(operation_results, snapshot.resources[i]) :
                  operation_results[j].operation = "resume"

\* the driver resume ran exactly once for position i, on the captured resource
ResumedOnce(i) ==
    /\ task[i].st = "finished" /\ task[i].runs = 1
    /\ task[i].arg = snapshot.resources[i]
    /\ task[i].out.operation \in { "resume", "raised" }

\* C4 (as amended): a Resume that is not cancelled invokes the driver resume
\* exactly once, on the captured resource, for every snapshot resource whose
\* kind the registry knows, invokes no driver for a resource of an unknown
\* kind, and returns exactly one result of op resume per resource.
C4_ResumeEveryRegistered ==
    (ResumeEnded /\ ~_cancel_requested) =>
        /\ OneResumeResultEach
        /\ \A i \in DOMAIN snapshot.resources :
               IF snapshot.resources[i].service_type \in service_managers
               THEN ResumedOnce(i)
               ELSE task[i].st = "none" /\ task[i].runs = 0

\* C4 (as stated): a Resume that is not cancelled invokes the driver resume
\* exactly once for every resource of the snapshot and returns one result of
\* op resume per resource.
C4_ResumeEveryResource ==
    (ResumeEnded /\ ~_cancel_requested) =>
        /\ OneResumeResultEach
        /\ \A i \in DOMAIN snapshot.resources : ResumedOnce(i)

\* an uncancelled Resume of a three-resource snapshot returned
C4_Witness ==
    /\ ResumeEnded /\ ~_cancel_requested
    /\ Len(snapshot.resources) = 3
    /\ \E i \in DOMAIN task : task[i].runs = 1
    /\ \E i \in DOMAIN task : task[i].runs = 0

\* C8: when a Pause that was not cancelled returns, every resource whose kind
\* the registry knows had its driver pause invoked (once), whatever the
\* siblings' pauses returned or raised, and the returned list holds exactly
\* one result per input resource.
C8_SiblingsNotSkipped ==
    [][(phase = "pause" /\ phase' = "between" /\ ~_cancel_requested) =>
          /\ Len(snapshot'.operation_results) = Len(resources)
          /\ \A i \in DOMAIN resources :
                 /\ Cardinality(ResultsFor(snapshot'.operation_results,
                                           resources[i])) = 1
                 /\ resources[i].service_type \in service_managers =>
                        task[i].st = "finished" /\ task[i].runs = 1]_vars

\* an uncancelled Pause of three resources is about to return: a driver raised,
\* a driver could not be created, and the third pause succeeded
C8_Witness ==
    /\ phase = "pause" /\ PoolClosed /\ ~_cancel_requested
    /\ Len(operation_results) = 3
    /\ \E j \in DOMAIN operation_results :
           operation_results[j].message = "Unexpected error"
    /\ \E j \in DOMAIN operation_results :
           operation_results[j].message = "Failed to get service manager"
    /\ \E j \in DOMAIN operation_results : operation_results[j].success

\* C9: no exception leaves pause_resources or resume_resources: a driver
\* exception and an unknown kind each become a failed result of the op of the
\* running call, Pause returns its snapshot whatever failed, and Resume
\* returns too.
C9_NoExceptionEscapes ==
    /\ ~escaped
    /\ phase \in { "pause", "resume" } =>
           /\ \A j \in DOMAIN operation_results :
                  /\ operation_results[j].operation = phase
                  /\ operation_results[j].resource.service_type \notin service_managers
                         => ~operation_results[j].success
           /\ \A i \in yielded :
                  task[i].out.operation = "raised" =>
                      \E j \in ResultsFor(operation_results, WorkList[i]) :
                          /\ ~operation_results[j].success
                          /\ operation_results[j].operation = phase
    /\ phase \in { "between", "resume", "end" } =>
           /\ snapshot.snapshot_id = "pause"
           /\ snapshot.resources = resources
           /\ \A j \in DOMAIN snapshot.operation_results :
                  snapshot.operation_results[j].operation = "pause"

\* Pause returned a snapshot although each of its three pauses failed: two
\* drivers raised and one driver could not be created
C9_Witness ==
    /\ phase = "between"
    /\ Len(snapshot.operation_results) = 3
    /\ \A j \in DOMAIN snapshot.operation_results :
           ~snapshot.operation_results[j].success
    /\ Cardinality({ j \in DOMAIN snapshot.operation_results :
           snapshot.operation_results[j].message = "Unexpected error" }) = 2

\* C10: in Pause and Resume, the driver calls that begin on a worker after the
\* cancellation flag was set never number more than the pool size.
C10_FurtherWithinPool == further <= max_workers

\* the pause of r succeeded, by the results the snapshot holds
PauseSucceeded(r) ==
    \E k \in ResultsFor(snapshot.operation_results, r) :
        snapshot.operation_results[k].success

\* the cloud call was issued for the object of r
Issued(r, call) == call \in Range(calls[ObjOf(r)])

\* a resume result that reports neither a failed cloud call nor an exception
NoCloudFailure(res) ==
    res.message \notin { "Failed to resume", "Failed to start", "Unexpected error",
                         "Failed to get service manager" }

\* C5: after Pause stopped a container service captured running with desired
\* count n > 0 or an instance group captured running with desired capacity
\* m > 0, a Resume of the returned snapshot that met no cloud failure has
\* issued update-service with n (set-desired-capacity with m) and the desired
\* count (capacity) in the cloud is n (m) again.
C5_ResumeRestoresScale ==
    ResumeEnded =>
        \A j \in DOMAIN operation_results :
            LET res == operation_results[j]
                r == res.resource
                n == r.metadata.desired
            IN  ( /\ r.service_type \in { "ecs", "autoscaling" }
                  /\ r.current_state = "running" /\ n > 0
                  /\ PauseSucceeded(r) /\ NoCloudFailure(res) ) =>
                    /\ cloud[ObjOf(r)].desired = n
                    /\ r.service_type = "ecs" => Issued(r, << "update_service", n >>)
                    /\ r.service_type = "autoscaling" =>
                           Issued(r, << "set_desired_capacity", n >>)

\* C6: after Pause stopped a database (instance or cluster) captured
\* available, a Resume of the returned snapshot that met no cloud failure has
\* issued the start call for it, and the database's state equals the original
\* state the snapshot recorded.
C6_ResumeStartsDatabase ==
    ResumeEnded =>
        \A j \in DOMAIN operation_results :
            LET res == operation_results[j]
                r == res.resource
            IN  ( /\ r.service_type = "rds"
                  /\ snapshot.original_states[Key(r)].current_state = "available"
                  /\ PauseSucceeded(r) /\ NoCloudFailure(res) ) =>
                    /\ \/ Issued(r, << "start_db_instance", 0 >>)
                       \/ Issued(r, << "start_db_cluster", 0 >>)
                    /\ cloud[ObjOf(r)].state =
                           snapshot.original_states[Key(r)].current_state

\* C7: for any resource list given to Pause, a resource whose state does not
\* satisfy the pausability rule of its kind gets no successful result and no
\* cloud mutation call (stop, update-service, suspend-processes,
\* set-desired-capacity) is issued for it.
C7_PausabilityGate ==
    phase \in { "pause", "between" } =>
        \A i \in DOMAIN resources :
            ~_is_resource_pausable(resources[i]) =>
                /\ calls[ObjOf(resources[i])] = << >>
                /\ \A j \in ResultsFor(operation_results, resources[i]) :
                       ~operation_results[j].success
                /\ \A j \in ResultsFor(snapshot.operation_results, resources[i]) :
                       ~snapshot.operation_results[j].success

\* ------------------------------------------------------------ C11
\* the units from position i on that were handed to the executor or run
LaterTouched(t, i) ==
    { j \in DOMAIN t : j >= i /\ (t[j].st # "none" \/ t[j].runs # 0) }

\* C11: in DiscoverAll, Pause and Resume, when the scheduling loop finds the
\* cancellation flag set before unit i, the loop ends there: unit i and the
\* later units of that phase are never submitted and never run, the call
\* returns what it gathered (a list, no exception), and a cloud object only
\* ever changes together with a new entry of its call log (nothing is undone).
C11_CancelStopsScheduling ==
    [][ /\ (dphase = "submit" /\ _cancel_requested')
            => (DSubmitted' = DSubmitted /\ dphase' = "collect")
        /\ (pc = "submit" /\ _cancel_requested')
            => (Submitted' = Submitted /\ pc' = "collect")
        /\ (dphase' \in { "collect", "exit", "returned" })
            => LaterTouched(dtask', dsi') = {}
        /\ (pc' \in { "collect", "exit" } \/ phase' = "end")
            => LaterTouched(task', si') = {}
        /\ (dphase' = "returned") => (dreturn' = "list")
        /\ ~escaped'
        /\ \A o \in DOMAIN calls :
              /\ o \in DOMAIN calls'
              /\ Len(calls'[o]) >= Len(calls[o])
              /\ SubSeq(calls'[o], 1, Len(calls[o])) = calls[o]
              /\ (cloud'[o] # cloud[o]) => (calls'[o] # calls[o])
      ]_vars

\* a Resume cancelled before its second unit: the first unit's driver call
\* ran, and the cloud calls made so far are still on record
C11_Witness ==
    /\ phase = "end" /\ snapshot.snapshot_id = "pause"
    /\ _cancel_requested
    /\ si = 2 /\ Len(snapshot.resources) >= 2
    /\ task[1].st = "finished" /\ task[2].st = "none"
    /\ task[1].runs = 1
    /\ calls[ObjOf(snapshot.resources[1])] # << >>

\* ------------------------------------------------------------ C12
\* the pairs whose driver the registry can create
Registered == { i \in 1..NPairs : get_service_manager(PairKind(i)) = "manager" }

\* orchestrator.py:98-100, 109-110, 116-120: one of the loops was left by break
DCancelled == dsi <= NPairs \/ ~(DSubmitted \subseteq dyielded)

\* orchestrator.py:139: all that the caller receives is the list
DiscoverResult == [kind |-> dreturn, value |-> all_resources]

\* v is a list that a discovery of the same account which ran every loop to
\* its end can return (pairs in F failed in their enumerate)
CompletedRunReturns(v) ==
    \E F \in SUBSET Registered :
        /\ Range(v.value) = UNION { Range(Holds(i)) : i \in Registered \ F }
        /\ Len(v.value) = Cardinality(Range(v.value))
        /\ v.kind = "list"

\* C12: what a cancelled DiscoverAll returns carries a cancellation marker:
\* the caller can tell it from what a completed run returns.
C12_CancelledRunMarked ==
    (dphase = "returned" /\ DCancelled) => ~CompletedRunReturns(DiscoverResult)

\* ------------------------------------------------------------ C13
\* C13: a DiscoverAll in which every (region, kind) pair of the scheduling
\* loops failed (its driver could not be created or its enumerate raised)
\* signals a discovery error instead of returning an empty list.
C13_AllFailedSignalsError ==
    (dphase = "returned" /\ ~DCancelled /\ NPairs >= 1
        /\ discovery_errors = NPairs)
    => dreturn = "ServiceError"

\* ------------------------------------------------------------ C14
\* C14: a DiscoverAll that was not cancelled and in which no pair failed has
\* run enumerate exactly once for each (region, kind) pair and returns a list
\* holding every resource of those pairs exactly once, in whatever order the
\* workers completed; for an account without resources it returns the empty
\* list, and it raises nothing.
C14_DiscoverReturnsUnion ==
    (dphase = "returned" /\ ~_cancel_requested /\ discovery_errors = 0)
    => /\ \A i \in 1..NPairs : dtask[i].runs = 1 /\ dtask[i].st = "finished"
       /\ Range(all_resources) = UNION { Range(Holds(i)) : i \in 1..NPairs }
       /\ \A a, b \in DOMAIN all_resources :
              all_resources[a] = all_resources[b] => a = b
       /\ (world = "empty") => (all_resources = << >>)
       /\ dreturn = "list"

\* four pairs over two regions were enumerated and the first pair's result
\* was not the first to be collected
C14_Witness ==
    /\ dphase = "returned" /\ ~_cancel_requested /\ discovery_errors = 0
    /\ NPairs = 4
    /\ Len(all_resources) = 4
    /\ all_resources[1].resource_id = "i-7"
    /\ dreturn = "list"

\* ------------------------------------------------------------ C15
\* a snapshot with no resources, no original states, or a resource whose
\* composite key has no original state
InvalidSnapshot(snap) ==
    \/ Len(snap.resources) = 0
    \/ DOMAIN snap.original_states = {}
    \/ \E i \in DOMAIN snap.resources :
          ~Recorded(snap.resources[i], snap.original_states)

\* C15: a Resume (comprehensive_resume, dry-run or not) of a snapshot with an
\* empty resources list, an empty original_states map or a resource whose
\* composite key is absent from original_states ends at once with a
\* ServiceError: no resume task is created, no driver call runs, no cloud
\* call is made and no result is returned.
C15_InvalidSnapshotFailsFast ==
    (via \in { "comprehensive", "dry_run" } /\ InvalidSnapshot(given))
    => /\ phase = "end"
       /\ resume_error = "ServiceError"
       /\ task = << >>
       /\ operation_results = << >>
       /\ \A o \in DOMAIN calls : calls[o] = << >>

\* a snapshot of two resources, one of them without original state, was
\* rejected
C15_Witness ==
    /\ phase = "end" /\ via = "comprehensive"
    /\ resume_error = "ServiceError"
    /\ Len(given.resources) = 2
    /\ Cardinality(DOMAIN given.original_states) = 1

\* ------------------------------------------------------------ C16
\* C16: from the call of Resume on, whatever its course (all resumed, some
\* failed, snapshot rejected, dry-run, cancelled), the snapshot equals the
\* snapshot that was handed in (resources, original_states, operation_results
\* and estimated savings), and the results Resume returns are a list of its
\* own: only resume results, at most one per resource.
C16_ResumeKeepsSnapshot ==
    (via \in { "comprehensive", "dry_run" })
    => /\ snapshot = given
       /\ \A j \in DOMAIN operation_results :
              operation_results[j].operation = "resume"
       /\ Len(operation_results) <= Len(given.resources)

\* a cancelled Resume of a two-resource snapshot that returned one failed
\* result
C16_Witness ==
    /\ phase = "end" /\ via = "comprehensive" /\ resume_error = "none"
    /\ _cancel_requested
    /\ Len(given.resources) = 2
    /\ Len(given.operation_results) = 2
    /\ snapshot.total_estimated_savings = 72
    /\ Len(operation_results) = 1
    /\ ~operation_results[1].success

\* ------------------------------------------------------------ C17
\* C17: Save is atomic with respect to <snapshot-id>.json: whatever Saves
\* (failing midway or not) and Loads, Lists and Deletes interleave, the file
\* <snapshot-id>.json, when present, holds a whole document (or the unreadable
\* file the directory started with), never a partly written one.
C17_TargetNeverPartial ==
    TargetOf(SavedId) \in DOMAIN fs
    => \/ IsJson(inode[fs[TargetOf(SavedId)]])
       \/ inode[fs[TargetOf(SavedId)]] = JunkFile

\* ------------------------------------------------------------ C18
\* C18: when a Save fails, at whatever step, a storage error is raised, the
\* .tmp sibling is gone afterwards, and <snapshot-id>.json is as it was.
\* (Stated for a Save that runs alone: no other Save touches the temp file.)
C18_FailedSaveCleansTemp ==
    (saver["A"].pc = "failed" /\ saver["B"].pc = "idle")
    => /\ saver["A"].result = "StateError"
       /\ TempOf(SavedId) \notin DOMAIN fs

C20_LoadReturnsSaved ==
    \A k \in DOMAIN SaveInputs :
        ( /\ loader.pc = "done"
          /\ loader.result.kind = "snapshot"
          /\ loader.result.data = json_dump(_serialize_snapshot(SaveInputs[k])) )
        => loader.result.value = SaveInputs[k]

\* ------------------------------------------------------------ C21
\* C21: any two Pause calls of a run produce distinct snapshot ids, two that
\* start within the same clock second included.
C21_DistinctSnapshotIds ==
    \A i, k \in DOMAIN made :
        i # k => made[i].snapshot_id # made[k].snapshot_id

\* ------------------------------------------------------------ C22
\* C22: the resources of a snapshot have pairwise distinct keys
\* (kind, region, id), so original_states has one entry per resource.
C22_OneEntryPerResource ==
    snapshot # NoSnapshot =>
        /\ \A i, k \in DOMAIN snapshot.resources :
               i # k => Key(snapshot.resources[i]) # Key(snapshot.resources[k])
        /\ Cardinality(DOMAIN snapshot.original_states) = Len(snapshot.resources)

\* ------------------------------------------------------------ C23
\* the documents of the stored snapshots
StoredDocs(dir) == { inode[dir[x]][2].body : x \in DOMAIN dir }

\* instant a is later than instant b, each read off its isoformat text as
\* second and microsecond
Later(a, b) ==
    LET sec(t) == t.text[3][1] * 10 + t.text[3][2]
        usec(t) == IF Len(t.text[3]) = 3 THEN t.text[3][3] ELSE 0
    IN  \/ sec(a) > sec(b)
        \/ sec(a) = sec(b) /\ usec(a) > usec(b)

\* the stored snapshots whose first resource is in the region asked for
InRegion(region) ==
    { d \in StoredDocs(fs) :
        region = "None" \/ (d.resources # << >> /\ d.resources[1].region = region) }

\* C23: LoadLatest(region) returns, among the stored snapshots whose primary
\* region is the one given (all of them when none is given), the one with
\* the greatest timestamp, and not-found when there is none.
C23_LatestOfRegion ==
    answer.op = "latest" =>
        IF InRegion(answer.arg) = {} THEN answer.got.kind = "None"
        ELSE /\ answer.got.kind = "snapshot"
             /\ answer.got.data \in InRegion(answer.arg)
             /\ \A d \in InRegion(answer.arg) :
                    ~Later(d.timestamp, answer.got.data.timestamp)
             /\ answer.got.value.snapshot_id = answer.got.data.snapshot_id
             /\ answer.got.value.timestamp
                    = fromisoformat(answer.got.data.timestamp)

\* LoadLatest("us-east-1") chose between two snapshots of that region while a
\* newer snapshot of another region was stored
C23_Witness ==
    /\ answer.op = "latest" /\ answer.arg = "us-east-1"
    /\ answer.got.kind = "snapshot"
    /\ Cardinality(InRegion("us-east-1")) = 2
    /\ \E d \in StoredDocs(fs) \ InRegion("us-east-1") :
           Later(d.timestamp, answer.got.data.timestamp)

\* ------------------------------------------------------------ C24
\* C24: after Trim(keep_n) on a store of k snapshots exactly the
\* min(keep_n, k) snapshots with the greatest timestamps remain, every other
\* one is deleted, and the count returned is k - min(keep_n, k).
C24_TrimKeepsNewest ==
    answer.op = "trim" =>
        LET k == Cardinality(DOMAIN answer.before)
            kept == IF answer.arg < k THEN answer.arg ELSE k
            stamp(x) == inode[answer.before[x]][2].body.timestamp
        IN  /\ DOMAIN fs \subseteq DOMAIN answer.before
            /\ \A x \in DOMAIN fs : fs[x] = answer.before[x]
            /\ Cardinality(DOMAIN fs) = kept
            /\ \A x \in DOMAIN fs, y \in (DOMAIN answer.before) \ (DOMAIN fs) :
                   Later(stamp(x), stamp(y))
            /\ answer.got = k - kept

\* Trim(1) on a store of three snapshots
C24_Witness ==
    /\ answer.op = "trim" /\ answer.arg = 1
    /\ Cardinality(DOMAIN answer.before) = 3
    /\ Cardinality(DOMAIN fs) = 1

\* ------------------------------------------------------------ C26
\* a is b with some elements left out, the others in b's order
RECURSIVE IsSubsequence(_, _)
IsSubsequence(a, b) ==
    IF a = << >> THEN TRUE
    ELSE IF b = << >> THEN FALSE
    ELSE IF Head(a) = Head(b) THEN IsSubsequence(Tail(a), Tail(b))
    ELSE IsSubsequence(a, Tail(b))

\* C26: filter(R, F) holds only elements of R, in R's order, and the result
\* for F with one more clause (a new key, one more required tag, one more
\* excluded tag) is a part of the result for F.
C26_FilterShrinks ==
    answer.op = "filter" =>
        /\ IsSubsequence(answer.got, answer.resources)
        /\ answer.before # << >> => IsSubsequence(answer.got, answer.before[1])

\* an excluded id was added to filters that had already dropped a resource,
\* and took one more resource away without emptying the result
C26_Witness ==
    /\ answer.op = "filter"
    /\ answer.before # << >>
    /\ answer.filters.exclude_resource_ids # << >>
    /\ Len(answer.before[1]) < Len(answer.resources)
    /\ Len(answer.got) < Len(answer.before[1])
    /\ answer.got # << >>

\* ------------------------------------------------------------ C27
\* every clause present in filters F holds of resource r
EveryClauseHolds(r, F) ==
    /\ F.service_types # << >> => r.service_type \in F.service_types[1]
    /\ F.regions # << >> => r.region \in F.regions[1]
    /\ F.tags # << >> => \A kv \in F.tags[1] : kv \in r.tags
    /\ F.exclude_tags # << >> => \A kv \in F.exclude_tags[1] : kv \notin r.tags
    /\ F.resource_ids # << >> => r.resource_id \in F.resource_ids[1]
    /\ F.exclude_resource_ids # << >>
           => r.resource_id \notin F.exclude_resource_ids[1]

\* C27: the filter keeps a resource exactly when every clause present holds:
\* kind and region among those listed, every required tag present with its
\* value, no excluded tag present with its value, id listed and not excluded.
C27_KeptIffEveryClause ==
    answer.op = "filter" =>
        LET Kept(r) == EveryClauseHolds(r, answer.filters)
        IN  answer.got = SelectSeq(answer.resources, Kept)

\* filters with a required and an excluded tag kept a resource that carries
\* another tag besides the required one, and dropped one that carries the
\* required key with another value
C27_Witness ==
    /\ answer.op = "filter"
    /\ answer.filters.tags = << { << "team", "a" >> } >>
    /\ answer.filters.exclude_tags = << { << "env", "dev" >> } >>
    /\ Len(answer.resources) = 3
    /\ Len(answer.got) = 1
    /\ Cardinality(answer.got[1].tags) = 2
    /\ \E i \in DOMAIN answer.resources :
           /\ << "team", "a" >> \in answer.resources[i].tags
           /\ << "env", "dev" >> \in answer.resources[i].tags

\* ------------------------------------------------------------ C25
\* C25: a dry-run pause issues no driver call and changes nothing in the
\* cloud; it returns one successful "[DRY RUN]" result for each resource that
\* passed the filters and the pausability rule, in order, and no snapshot.
C25_DryRunTouchesNothing ==
    via = "dry_run" =>
        LET Passes(r) == /\ EveryClauseHolds(r, answer.filters)
                         /\ _is_resource_pausable(r)
            passed == SelectSeq(discovered, Passes)
        IN  /\ task = << >>
            /\ \A o \in DOMAIN calls : calls[o] = << >>
            /\ \A r \in Range(discovered) : cloud[ObjOf(r)] = CloudOf(r)
            /\ snapshot = NoSnapshot
            /\ original_states = << >>
            /\ Len(operation_results) = Len(passed)
            /\ \A i \in DOMAIN passed :
                   /\ operation_results[i].resource = passed[i]
                   /\ operation_results[i].success
                   /\ operation_results[i].operation = "pause"
                   /\ operation_results[i].message = "[DRY RUN] Would pause"

\* a dry run over two services and a function, which reported the two services
C25_Witness ==
    /\ via = "dry_run"
    /\ Len(discovered) = 3
    /\ Len(operation_results) = 2
    /\ answer.filters.service_types # << >>

\* ------------------------------------------------------------ C28
\* the sum of f over the set S
RECURSIVE SumOver(_, _)
SumOver(S, f) ==
    IF S = {} THEN 0
    ELSE LET x == CHOOSE y \in S : TRUE IN f[x] + SumOver(S \ { x }, f)

\* C28: in the summary of a result list successes + failures = total, the
\* per-kind totals add up to the total, each kind's success + failed is its
\* total, the failed-resource list has one descriptor per failed result, the
\* success ratio is exactly successes / total (0 for the empty list), and the
\* list given is left as it was.
C28_SummaryArithmetic ==
    answer.op = "summary" =>
        LET rs == answer.given
            s == answer.got
            ok == { i \in DOMAIN rs : rs[i].success }
            bad == { i \in DOMAIN rs : ~rs[i].success }
            kinds == { rs[i].resource.service_type : i \in DOMAIN rs }
            of(k) == { i \in DOMAIN rs : rs[i].resource.service_type = k }
            by == s.by_service_type
        IN  /\ answer.results = rs
            /\ s.total_operations = Len(rs)
            /\ s.successful_operations = Cardinality(ok)
            /\ s.failed_operations = Cardinality(bad)
            /\ s.successful_operations + s.failed_operations = s.total_operations
            /\ DOMAIN by = kinds
            /\ SumOver(kinds, [k \in kinds |-> by[k].total]) = s.total_operations
            /\ \A k \in kinds :
                   /\ by[k].total = Cardinality(of(k))
                   /\ by[k].success = Cardinality(of(k) \cap ok)
                   /\ by[k].success + by[k].failed = by[k].total
            /\ Len(s.failed_resources) = Cardinality(bad)
            /\ \A n \in DOMAIN s.failed_resources :
                   \E i \in bad :
                       /\ Cardinality({ m \in bad : m <= i }) = n
                       /\ s.failed_resources[n].service_type = rs[i].resource.service_type
                       /\ s.failed_resources[n].resource_id = rs[i].resource.resource_id
                       /\ s.failed_resources[n].region = rs[i].resource.region
                       /\ s.failed_resources[n].error_message = rs[i].message
            /\ IF rs = << >> THEN s.success_rate.num = 0
               ELSE /\ s.success_rate.den # 0
                    /\ s.success_rate.num * Len(rs)
                           = Cardinality(ok) * s.success_rate.den

\* the summary of three results of two kinds, one of them a success
C28_Witness ==
    /\ answer.op = "summary"
    /\ Len(answer.given) = 3
    /\ answer.got.successful_operations = 1
    /\ answer.got.failed_operations = 2
    /\ Cardinality(DOMAIN answer.got.by_service_type) = 2

\* ------------------------------------------------------------ C29
\* C29: the snapshot's estimated monthly savings is the sum of
\* cost hint x 720 over the resources of the snapshot that have a cost hint,
\* whichever pauses succeeded, failed or were never attempted.
C29_SavingsOverAllResources ==
    snapshot # NoSnapshot =>
        LET rs == snapshot.resources
            hinted == { i \in DOMAIN rs : rs[i].cost_per_hour # << >> }
        IN  snapshot.total_estimated_savings
                = SumOver(hinted, [i \in hinted |-> rs[i].cost_per_hour[1] * 720])

\* a Pause of three resources, two of them with a cost hint, that was
\* cancelled after its first submission, whose one pause failed
C29_Witness ==
    /\ snapshot # NoSnapshot
    /\ phase = "between"
    /\ Len(snapshot.resources) = 3
    /\ Len(snapshot.operation_results) = 1
    /\ ~snapshot.operation_results[1].success
    /\ snapshot.total_estimated_savings = 5040

\* ------------------------------------------------------------ C30
\* C30: at every moment of a Pause or a Resume at most max_workers driver
\* calls are executing, and at every moment of a DiscoverAll at most 10
\* enumerate calls are executing.
C30_PoolSizesBoundRunning ==
    /\ Cardinality({ i \in DOMAIN task : task[i].st = "running" }) <= max_workers
    /\ Cardinality({ i \in DOMAIN dtask : dtask[i].st = "running" }) <= 10

\* ten enumerate calls are executing and the eleventh waits in the queue
C30_Witness ==
    /\ Cardinality({ i \in DOMAIN dtask : dtask[i].st = "running" }) = 10
    /\ \E i \in DOMAIN dtask : dtask[i].st = "pending"

\* as many driver calls as the pool has workers are executing and one more
\* waits in the queue
C30_WitnessPause ==
    /\ phase = "pause"
    /\ Cardinality({ i \in DOMAIN task : task[i].st = "running" }) = max_workers
    /\ \E i \in DOMAIN task : task[i].st = "pending"

\* ------------------------------------------------------------ C31
\* C31: for one orchestrator, whatever the interleaving of the
\* get_service_manager calls, at most one driver is constructed per
\* (kind, region) and every call for a pair returns that one driver.
C31_OneDriverPerPair ==
    /\ \A i, k \in DOMAIN built : i # k => built[i] # built[k]
    /\ \A t, u \in Callers :
           \A i \in DOMAIN gcall[t].log, k \in DOMAIN gcall[u].log :
               gcall[t].log[i].key = gcall[u].log[k].key
                   => gcall[t].log[i].driver = gcall[u].log[k].driver

\* ------------------------------------------------------------ C32
\* C32: a Resume of a snapshot with an empty original_states, or with a
\* resource whose composite key has no original_states entry, ends with an
\* error of the state kind (StateError), not of the service kind.
C32_IntegrityFailureIsStateError ==
    ( /\ via \in { "comprehensive", "dry_run" }
      /\ given.resources # << >>
      /\ \E i \in DOMAIN given.resources :
             Key(given.resources[i]) \notin DOMAIN given.original_states )
    => resume_error = "StateError"

\* ------------------------------------------------------------ C33
\* C33: after a successful Pause and a successful Resume of an instance
\* group, its desired capacity is the snapshot-time desired_capacity and its
\* scaling processes are suspended exactly as they were at snapshot time.
C33_GroupRestored ==
    \A i \in DOMAIN operation_results :
        LET res == operation_results[i]
            r == res.resource
        IN  ( /\ res.operation = "resume" /\ res.success
              /\ r.service_type = "autoscaling"
              /\ \E k \in DOMAIN snapshot.operation_results :
                     /\ snapshot.operation_results[k].resource = r
                     /\ snapshot.operation_results[k].success )
            => /\ cloud[ObjOf(r)].desired = r.metadata.desired
               /\ cloud[ObjOf(r)].suspended = CloudOf(r).suspended

\* ------------------------------------------------------------ C34
\* C34: for a container service with desired >= 0 and running >= 0 enumerate
\* derives stopped if desired = 0 (whatever running is), else running if
\* running = desired, scaling_up if running < desired, scaling_down if
\* running > desired; metadata desired_count and running_count are the
\* values the state was derived from.
C34_EcsStateDerivation ==
    (answer.op = "ecs" /\ answer.service.status = "ACTIVE") =>
        LET d == answer.service.desiredCount
            n == answer.service.runningCount
        IN  /\ Len(answer.got) = 1
            /\ answer.got[1].metadata.desired_count = d
            /\ answer.got[1].metadata.running_count = n
            /\ (d = 0) => answer.got[1].current_state = "stopped"
            /\ (d # 0 /\ n = d) => answer.got[1].current_state = "running"
            /\ (d # 0 /\ n < d) => answer.got[1].current_state = "scaling_up"
            /\ (d # 0 /\ n > d) => answer.got[1].current_state = "scaling_down"

\* a service with desired 0 and three tasks still running was enumerated as
\* stopped
C34_Witness ==
    /\ answer.op = "ecs"
    /\ answer.service.status = "ACTIVE"
    /\ answer.service.desiredCount = 0
    /\ answer.service.runningCount = 3
    /\ answer.got[1].current_state = "stopped"


CallNames(cs) == [i \in 1..Len(cs) |-> cs[i].name]

PauseOrder == << "suspend_processes", "set_desired_capacity" >>

\* C35: pausing an instance group calls suspend_processes with the eight
\* processes, then set_desired_capacity with 0, then polls for convergence;
\* a call is made only when every call before it returned without error, the
\* wait starts only after both calls returned, and when a step failed no
\* later step has run and the result is a failed one.
C35_PauseStepsInOrder ==
    adrv # << >> =>
        /\ Len(adrv.calls) <= 2
        /\ CallNames(adrv.calls) = SubSeq(PauseOrder, 1, Len(adrv.calls))
        /\ \A i \in 1..Len(adrv.calls) :
               /\ i < Len(adrv.calls) => adrv.calls[i].ok
               /\ adrv.calls[i].name = "suspend_processes" =>
                      adrv.calls[i].processes = processes_to_suspend
               /\ adrv.calls[i].name = "set_desired_capacity" =>
                      adrv.calls[i].capacity = 0
        /\ adrv.polled =>
               /\ Len(adrv.calls) = 2
               /\ \A i \in 1..2 : adrv.calls[i].ok
        /\ (adrv.pc = "done" /\ \E i \in 1..Len(adrv.calls) : ~adrv.calls[i].ok) =>
               ~adrv.success
        /\ (adrv.pc = "done" /\ adrv.elapsed >= max_wait_time) => ~adrv.success

\* suspend_processes returned, set_desired_capacity raised, and the failed
\* result came back without a poll
C35_Witness ==
    /\ adrv # << >>
    /\ adrv.pc = "done"
    /\ Len(adrv.calls) = 2
    /\ adrv.calls[1].ok
    /\ ~adrv.calls[2].ok
    /\ ~adrv.polled
    /\ ~adrv.success

\* the pause ran all three steps and succeeded
C35_WitnessAll ==
    /\ adrv # << >>
    /\ adrv.pc = "done"
    /\ adrv.success
    /\ adrv.polled
    /\ Len(adrv.calls) = 2

Waited == adrv # << >> /\ Len(adrv.calls) = 2 /\ adrv.calls[2].ok

\* C36: the convergence wait always ends, and so does the pause around it;
\* it returns at the first poll that sees the in-service count at the target
\* (the pause then succeeds), otherwise it ends by the timeout once
\* max_wait_time has passed and the pause reports a failed result; a poll
\* that raised or found no group never ends the wait before that.
C36_WaitEnds ==
    /\ <>(adrv # << >> /\ adrv.pc = "done")
    /\ [](Waited =>
            /\ adrv.seen = << 0 >> => adrv.pc \in { "converged", "done" }
            /\ adrv.pc = "converged" => adrv.seen = << 0 >>
            /\ adrv.pc = "done" => (adrv.success <=> adrv.seen = << 0 >>)
            /\ adrv.pc \in { "failed", "done" } /\ adrv.seen # << 0 >> =>
                   adrv.elapsed >= max_wait_time
            /\ adrv.pc = "wait" /\ adrv.poll_failed => adrv.seen # << 0 >>)

\* the wait met a poll that failed, went on, and ended by the timeout
C36_Witness ==
    /\ Waited
    /\ adrv.pc = "done"
    /\ adrv.poll_failed
    /\ ~adrv.success
    /\ adrv.elapsed >= max_wait_time

\* the wait met a poll that failed, went on, and later saw the target
C36_WitnessConverged ==
    /\ Waited
    /\ adrv.pc = "done"
    /\ adrv.poll_failed
    /\ adrv.success
    /\ adrv.elapsed > 0

Reported(r) ==
    \E k \in 1..Len(operation_results) : operation_results[k].resource = r

\* C37: when pause_resources or resume_resources leaves its pool and
\* returns, every resource whose driver call ran to its end has a result in
\* the list that is returned (for Pause the same list is the snapshot's
\* operation_results), whenever the cancellation flag was set.
C37_CompletedReported ==
    (phase \in { "pause", "resume" } /\ PoolClosed /\ ~escaped) =>
        \A i \in DOMAIN task :
            task[i].st = "finished" => Reported(task[i].arg)


\* a call of the orchestrator that found the flag set has submitted nothing
\* and collected nothing
NothingSubmitted ==
    /\ phase \in { "pause", "resume" } => Submitted = {} /\ operation_results = << >>
    /\ dphase \in { "submit", "collect", "exit", "returned" } =>
           DSubmitted = {} /\ all_resources = << >>
    /\ \A o \in DOMAIN calls : calls[o] = << >>

\* the snapshot of a Pause that found the flag set: no results, every input
\* resource listed, each with an entry under its key
LatchedSnapshotLists ==
    phase = "between" =>
        /\ snapshot.operation_results = << >>
        /\ snapshot.resources = discovered
        /\ \A i \in DOMAIN discovered :
               Recorded(discovered[i], snapshot.original_states)

\* what holds of every call while the flag stays set
LatchedCallsDoNothing ==
    _cancel_requested => NothingSubmitted /\ LatchedSnapshotLists

\* C38: only reset_cancel clears the cancellation flag; while it is set,
\* every DiscoverAll, Pause and Resume submits no driver call and returns an
\* empty list, one call after the other, and the snapshot such a Pause
\* returns lists every input resource, as enumerated, with an entry of
\* original_states under its key.
C38_FlagStaysSet ==
    /\ []LatchedCallsDoNothing
    /\ [][(_cancel_requested /\ ~_cancel_requested') => ResetCancel]_vars

\* a Pause and then a Resume both ran to their return with the flag set
C38_Witness ==
    /\ _cancel_requested
    /\ phase = "end"
    /\ Len(snapshot.resources) = 3
    /\ operation_results = << >>

\* C39: every DiscoverAll, Pause and Resume that was invoked returns, given
\* that threads are scheduled and each started driver call returns or
\* raises; with the flag clear throughout and with the flag set at any
\* iteration of the scheduling loop or of the collect loop.
C39_CallsReturn ==
    /\ (phase = "pause") ~> (phase \in { "between", "end" })
    /\ (phase = "resume") ~> (phase = "end")
    /\ (dphase \in { "submit", "collect", "exit" }) ~> (dphase = "returned")

\* a Resume returned after the flag was found in its collect loop: a queued
\* call was cancelled and a running one had been waited for
C39_Witness ==
    /\ phase = "end"
    /\ _cancel_requested
    /\ \E i \in DOMAIN task : task[i].st = "cancelled"
    /\ \E i \in DOMAIN task : task[i].st = "finished" /\ i \notin yielded

\* a discovery returned after the flag was found in its collect loop
C39_WitnessDiscover ==
    /\ dphase = "returned"
    /\ _cancel_requested
    /\ \E i \in DOMAIN dtask : dtask[i].st = "finished" /\ i \notin dyielded

\* C40: comprehensive_pause with a regions override has put the
\* orchestrator's region list back to its value before the call whenever it
\* has returned or raised, whichever exit was taken; during the call the
\* list is the override, and every resource enumerated is of an override
\* region.
C40_RegionsRestored ==
    answer.op = "comprehensive_pause" =>
        /\ answer.pc = "returned" => regions = answer.before
        /\ (answer.pc # "returned" /\ answer.regions_arg # << >>) =>
               /\ regions = answer.regions_arg
               /\ \A i \in DOMAIN all_resources :
                      all_resources[i].region \in Range(answer.regions_arg)
               /\ \A i \in DOMAIN dtask :
                      dtask[i].st # "none" => PairRegion(i) \in Range(answer.regions_arg)

\* an exception left comprehensive_pause while a differing override was in
\* place
C40_Witness ==
    /\ answer.op = "comprehensive_pause"
    /\ answer.pc = "returned"
    /\ answer.exit = "raised"
    /\ answer.regions_arg # << >>
    /\ answer.regions_arg # answer.before

\* each exit of the claim was taken with an override in place
C40_WitnessExit(e) ==
    /\ answer.op = "comprehensive_pause"
    /\ answer.pc = "returned"
    /\ answer.exit = e
    /\ answer.regions_arg # << >>
    /\ answer.regions_arg # answer.before

C40_WitnessNormal == C40_WitnessExit("normal")
C40_WitnessNothingFound == C40_WitnessExit("nothing_found")
C40_WitnessNothingPausable == C40_WitnessExit("nothing_pausable")
C40_WitnessDryRun == C40_WitnessExit("dry_run")
====
